---- MODULE Spec2Model ----
(***************************************************************************)
(* Host blob ingestor (EigenDAChainHintHandler::fetch_hint) and client     *)
(* blob reconstructor (OracleEigenDaProvider::blob_get) of hydro, sharing  *)
(* one lock-guarded preimage store.                                        *)
(***************************************************************************)
EXTENDS Integers, Sequences, FiniteSets, TLC

\* ------------------------------------------------------------ bounds
\* Largest data_length (in field elements) a generated certificate declares.
MaxDataLength == 3
\* Number of blob_get calls one client issues.
MaxCalls == 2

\* ------------------------------------------------- program constants
BYTES_PER_FIELD_ELEMENT == 32
BLOB_ENCODING_VERSION_0 == 0
\* let mut blob_key = [0u8; 96]
BLOB_KEY_LEN == 96
\* blob_key[88..] holds the big-endian u64 index
INDEX_OFFSET == 88
\* kzg_proof_key = [0u8; 64], the x || y prefix
PROOF_KEY_LEN == 64
\* kzg_commitment_key = [0u8; 65]
COMMITMENT_KEY_LEN == 65
\* &commitment[3..]
CERT_OFFSET == 3
\* ensure!(hint.data.len() > 32)
HOST_MIN_LEN == 32
\* commitment.len() <= 32 + 3
ClientMinLen == 32 + 3

\* ------------------------------------------------------ byte helpers
Min(a, b) == IF a < b THEN a ELSE b

Zeros(n) == [k \in 1..n |-> 0]

Fill(n, b) == [k \in 1..n |-> b]

RECURSIVE Shr8(_, _)
Shr8(v, j) == IF j = 0 THEN v ELSE Shr8(v \div 256, j - 1)

\* u64::to_be_bytes / u32::to_be_bytes: n bytes, most significant first
ToBeBytes(n, v) == [k \in 1..n |-> Shr8(v, n - k) % 256]

RECURSIVE FromBeBytes(_)
FromBeBytes(s) ==
    IF Len(s) = 0 THEN 0
    ELSE FromBeBytes(SubSeq(s, 1, Len(s) - 1)) * 256 + s[Len(s)]

\* Rust slice s[a..b] (0-based, half open) on a 1-based sequence
Slice(s, a, b) == SubSeq(s, a + 1, b)

\* Result values
Ok(v) == [ok |-> TRUE, err |-> "", val |-> v]
Err(e) == [ok |-> FALSE, err |-> e, val |-> <<>>]

\* ------------------------------------------------ blob transform
\* helpers::convert_by_padding_empty_byte: a zero byte before each 31 bytes
RECURSIVE PadChunks(_)
PadChunks(d) ==
    IF Len(d) = 0 THEN <<>>
    ELSE <<0>> \o SubSeq(d, 1, Min(BYTES_PER_FIELD_ELEMENT - 1, Len(d)))
              \o PadChunks(SubSeq(d, BYTES_PER_FIELD_ELEMENT, Len(d)))

\* helpers::remove_empty_byte_from_padded_bytes_unchecked
RECURSIVE UnpadChunks(_)
UnpadChunks(c) ==
    IF Len(c) = 0 THEN <<>>
    ELSE SubSeq(c, 2, Min(BYTES_PER_FIELD_ELEMENT, Len(c)))
         \o UnpadChunks(SubSeq(c, BYTES_PER_FIELD_ELEMENT + 1, Len(c)))

\* EigenDABlobData::encode: header field element (version, length) then the
\* padded payload
EncodeBlob(d) ==
    <<0, BLOB_ENCODING_VERSION_0>> \o ToBeBytes(4, Len(d))
        \o Zeros(BYTES_PER_FIELD_ELEMENT - 6) \o PadChunks(d)

\* EigenDABlobData::decode: the inverse transform, failing on a blob with no
\* header or with less payload than the header declares
DecodeBlob(blob) ==
    IF Len(blob) < BYTES_PER_FIELD_ELEMENT THEN Err("decode")
    ELSE LET size == FromBeBytes(Slice(blob, 2, 6))
             content == UnpadChunks(Slice(blob, BYTES_PER_FIELD_ELEMENT, Len(blob)))
         IN  IF Len(content) < size THEN Err("decode")
             ELSE Ok(SubSeq(content, 1, size))

\* ------------------------------------------------ certificate
CertLen == 2 * BYTES_PER_FIELD_ELEMENT + 4

\* The encoding of a certificate: commitment point x, y and data_length
EncodeBlobInfo(x, y, L) == x \o y \o ToBeBytes(4, L)

\* BlobInfo::decode
DecodeBlobInfo(bytes) ==
    IF Len(bytes) # CertLen THEN [ok |-> FALSE, x |-> <<>>, y |-> <<>>, data_length |-> 0]
    ELSE [ok |-> TRUE,
          x |-> Slice(bytes, 0, BYTES_PER_FIELD_ELEMENT),
          y |-> Slice(bytes, BYTES_PER_FIELD_ELEMENT, 2 * BYTES_PER_FIELD_ELEMENT),
          data_length |-> FromBeBytes(Slice(bytes, 2 * BYTES_PER_FIELD_ELEMENT, CertLen))]

\* commitment[3..] decoded, by host (handler.rs:63) and client (provider.rs:59)
CertOf(commitment) == DecodeBlobInfo(Slice(commitment, CERT_OFFSET, Len(commitment)))

\* ------------------------------------------------ preimage keys
Keccak256(buf) == <<"keccak256", buf>>

PreimageKey(hash, ty) == [ty |-> ty, hash |-> hash]

\* blob_key: x || y || 24 zero bytes || index as 8 big-endian bytes
BlobKey(x, y, i) ==
    [k \in 1..BLOB_KEY_LEN |->
        IF k <= BYTES_PER_FIELD_ELEMENT THEN x[k]
        ELSE IF k <= 2 * BYTES_PER_FIELD_ELEMENT THEN y[k - BYTES_PER_FIELD_ELEMENT]
        ELSE IF k <= INDEX_OFFSET THEN 0
        ELSE ToBeBytes(BLOB_KEY_LEN - INDEX_OFFSET, i)[k - INDEX_OFFSET]]

\* kzg_proof_key: blob_key[..64]
KzgProofKey(x, y) == Slice(BlobKey(x, y, 0), 0, PROOF_KEY_LEN)

\* KzgCommitmentKey without its 65th byte
KzgCommitmentKeyUnflagged(x, y) == Slice(BlobKey(x, y, 0), 0, PROOF_KEY_LEN)

\* kzg_commitment_key: blob_key[..64] || 0
KzgCommitmentKey(x, y) ==
    [k \in 1..COMMITMENT_KEY_LEN |->
        IF k <= PROOF_KEY_LEN THEN BlobKey(x, y, 0)[k] ELSE 0]

\* FieldElement with the loop index left out of the slice bounds
FieldElementFirstOnly(eb, i) ==
    [k \in 1..BYTES_PER_FIELD_ELEMENT |-> IF k <= Len(eb) THEN eb[k] ELSE 0]

\* FieldElement without the zero padding of a short last slice
FieldElementUnpadded(eb, i) ==
    SubSeq(eb, i * BYTES_PER_FIELD_ELEMENT + 1,
           Min(Len(eb), (i + 1) * BYTES_PER_FIELD_ELEMENT))

\* data_slice: bytes [32i, 32i+32) of the transformed blob, zero padded
FieldElement(eb, i) ==
    LET start == i * BYTES_PER_FIELD_ELEMENT
        end == start + BYTES_PER_FIELD_ELEMENT
        actual_end == Min(Len(eb), end)
    IN  IF start >= Len(eb) THEN Zeros(BYTES_PER_FIELD_ELEMENT)
        ELSE [k \in 1..BYTES_PER_FIELD_ELEMENT |->
                IF k <= actual_end - start THEN eb[start + k] ELSE 0]

\* SizeOk with the assertion dropped: an oversize blob is cut to data_length * 32
SizeOkTruncating(eb, L) == TRUE

\* the size assertion of the host
SizeOk(eb, L) == Len(eb) <= L * BYTES_PER_FIELD_ELEMENT

\* EigenDABlobWitness: proof and commitment bytes of a blob
WitnessProof(blob) == <<1>> \o blob
WitnessCommitment(blob) == <<2>> \o blob

\* ------------------------------------------------ proxy
\* The reply of the proxy to GET /get/0x<commitment>
Reply(kind, status, body) == [kind |-> kind, status |-> status, body |-> body]

\* EigenDAProxy::retrieve_blob_with_commitment
RetrieveBlobWithCommitment(reply) ==
    IF reply.kind = "timeout" THEN Err("NetworkError")
    ELSE IF reply.kind = "conn_error" THEN Err("RetrieveBlobWithCommitment")
    ELSE IF reply.status = 200
    THEN IF reply.kind = "body_error" THEN Err("RetrieveBlobWithCommitment")
         ELSE Ok(reply.body)
    ELSE IF reply.status = 404 THEN Err("NotFound")
    ELSE Err("NetworkError")

\* OnlineEigenDAProvider::get_blob
GetBlob(reply) ==
    LET r == RetrieveBlobWithCommitment(reply)
    IN  IF r.ok THEN r ELSE Err("RetrieveFramesFromDaIndexer")

\* ------------------------------------------------ inputs
\* Payloads the proxy may serve: empty, one full chunk, one chunk and a tail
RawBlob(n) == [k \in 1..n |-> (k * 37 + 11) % 256]

BlobLens == {0, BYTES_PER_FIELD_ELEMENT - 1, BYTES_PER_FIELD_ELEMENT + 1}

RawBlobs == {RawBlob(n) : n \in BlobLens}

\* commitment = 3 bytes of metadata followed by the encoded certificate
Commitment(x, y, L) == <<1, 0, 0>> \o EncodeBlobInfo(x, y, L)

\* The certificate whose point is the first 64 bytes of the transformed blob
CommitmentFor(b, L) ==
    Commitment(Slice(EncodeBlob(b), 0, BYTES_PER_FIELD_ELEMENT),
               Slice(EncodeBlob(b), BYTES_PER_FIELD_ELEMENT, 2 * BYTES_PER_FIELD_ELEMENT), L)

\* data_length one short of, equal to and above the transformed length
MatchingCommitments ==
    {CommitmentFor(RawBlob(BYTES_PER_FIELD_ELEMENT - 1), L) : L \in {2, MaxDataLength}}
    \cup {CommitmentFor(RawBlob(BYTES_PER_FIELD_ELEMENT + 1), L) :
             L \in {MaxDataLength - 1, MaxDataLength}}

\* x = 0x01..01, y = 0x02..02, data_length = 2: a point no served blob matches
ForeignCommitment ==
    Commitment(Fill(BYTES_PER_FIELD_ELEMENT, 1), Fill(BYTES_PER_FIELD_ELEMENT, 2), 2)

\* a point equal to the header field element of the empty blob
ZeroPointCommitment ==
    Commitment(Zeros(BYTES_PER_FIELD_ELEMENT), Zeros(BYTES_PER_FIELD_ELEMENT), 1)

\* commitments that carry no decodable certificate: 32, 34 and 36 bytes
MalformedCommitments == {Fill(n, 1) : n \in {HOST_MIN_LEN, HOST_MIN_LEN + 2, ClientMinLen + 1}}

Commitments ==
    MatchingCommitments \cup {ForeignCommitment, ZeroPointCommitment} \cup MalformedCommitments

\* replies of the proxy in the main specification: 200 with a body, or 404
Replies(bodies) == {Reply("status", 200, b) : b \in bodies} \cup {Reply("status", 404, <<>>)}

\* what a GET can come back with: a status and a body, a status whose body
\* cannot be read, no answer in time, no connection
ProxyReplies ==
    Replies(RawBlobs)
    \cup {Reply("status", 500, <<>>), Reply("status", 503, <<>>),
          Reply("body_error", 200, <<>>), Reply("timeout", 0, <<>>),
          Reply("conn_error", 0, <<>>)}

\* ------------------------------------------------ derivation source: data
\* first calldata byte of a batcher transaction that carries a CalldataFrame
DERIVATION_VERSION_EIGEN_DA == 237

\* addresses: the source's configured batcher address, the batcher's signing
\* address, Address::default(), and any other address
BatcherInbox == "inbox"
BatcherSigner == "batcher"
ZeroAddress == "zero"
OtherAddress == "other"

\* to() of a contract creation, and a signature recover_signer() rejects
NoAddress == "create"
InvalidSignature == "invalid"

\* a TxEnvelope: its variant, destination, signer, input and versioned hashes
Tx(ty, to, signer, input, blob_hashes) ==
    [ty |-> ty, to |-> to, signer |-> signer, input |-> input,
     blob_versioned_hashes |-> blob_hashes]

\* the match on the envelope: variants other than the four listed are skipped
KnownTxTypes == {"Legacy", "Eip2930", "Eip1559", "Eip4844"}

\* blob_hashes of the match: Some(..) for an Eip4844 transaction, else None
BlobHashesOf(tx) ==
    IF tx.ty = "Eip4844" THEN [some |-> TRUE, hashes |-> tx.blob_versioned_hashes]
    ELSE [some |-> FALSE, hashes |-> <<>>]

\* blob_hashes.map_or(0, |h| h.len())
HashCount(tx) == IF BlobHashesOf(tx).some THEN Len(BlobHashesOf(tx).hashes) ELSE 0

\* tx.recover_signer().unwrap_or_default()
RecoverSignerOrDefault(tx) ==
    IF tx.signer = InvalidSignature THEN ZeroAddress ELSE tx.signer

\* IndexedBlobHash { hash, index }
IndexedBlobHash(hash, index) == [hash |-> hash, index |-> index]

\* CalldataFrame as bytes: a tag, then an inline frame or a reference
\* (quorum ids, declared length, commitment); no bytes at all is a message
\* without a value
EncodeFrame(frame) == <<1>> \o frame

EncodeFrameRef(commitment, blob_length, quorum_ids) ==
    <<2, Len(quorum_ids)>> \o quorum_ids \o <<blob_length>> \o commitment

NoCalldataFrame ==
    [ok |-> FALSE, value |-> "none", frame |-> <<>>, commitment |-> <<>>,
     blob_length |-> 0, quorum_ids |-> <<>>]

\* CalldataFrame::decode
DecodeCalldataFrame(bytes) ==
    IF Len(bytes) = 0 THEN [NoCalldataFrame EXCEPT !.ok = TRUE]
    ELSE IF bytes[1] = 1
    THEN [NoCalldataFrame EXCEPT !.ok = TRUE, !.value = "frame",
                                 !.frame = SubSeq(bytes, 2, Len(bytes))]
    ELSE IF bytes[1] = 2 /\ Len(bytes) >= 2 /\ Len(bytes) >= 3 + bytes[2]
    THEN [NoCalldataFrame EXCEPT !.ok = TRUE, !.value = "frame_ref",
                                 !.quorum_ids = SubSeq(bytes, 3, 2 + bytes[2]),
                                 !.blob_length = bytes[3 + bytes[2]],
                                 !.commitment = SubSeq(bytes, 4 + bytes[2], Len(bytes))]
    ELSE NoCalldataFrame

\* RLP of a list of byte strings, short forms (payloads below 56 bytes)
RlpEncodeBytes(b) ==
    IF Len(b) = 1 /\ b[1] < 128 THEN b ELSE <<128 + Len(b)>> \o b

RECURSIVE RlpEncodeItems(_)
RlpEncodeItems(items) ==
    IF Len(items) = 0 THEN <<>>
    ELSE RlpEncodeBytes(Head(items)) \o RlpEncodeItems(Tail(items))

RlpEncodeList(items) ==
    <<192 + Len(RlpEncodeItems(items))>> \o RlpEncodeItems(items)

\* the byte strings of a list payload; an item that is itself a list, is cut
\* short or is a single byte in the long form is an error
RECURSIVE RlpDecodeItems(_)
RlpDecodeItems(p) ==
    IF Len(p) = 0 THEN Ok(<<>>)
    ELSE IF p[1] < 128
    THEN LET rest == RlpDecodeItems(Tail(p))
         IN  IF rest.ok THEN Ok(<<<<p[1]>>>> \o rest.val) ELSE rest
    ELSE IF p[1] >= 184 \/ Len(p) < 1 + (p[1] - 128) THEN Err("RLPDecodeError")
    ELSE LET n == p[1] - 128
             item == SubSeq(p, 2, 1 + n)
             rest == RlpDecodeItems(SubSeq(p, 2 + n, Len(p)))
         IN  IF n = 1 /\ item[1] < 128 THEN Err("RLPDecodeError")
             ELSE IF rest.ok THEN Ok(<<item>> \o rest.val) ELSE rest

\* rlp::decode::<VecOfBytes>
RlpDecodeList(bytes) ==
    IF Len(bytes) = 0 \/ bytes[1] < 192 \/ bytes[1] > 247 THEN Err("RLPDecodeError")
    ELSE IF Len(bytes) # 1 + (bytes[1] - 192) THEN Err("RLPDecodeError")
    ELSE RlpDecodeItems(Tail(bytes))

\* a plain blob as bytes: version, content length, content, zero padding
BLOB_SIZE == 8

EncodePlainBlob(content) ==
    <<0, Len(content)>> \o content \o Zeros(BLOB_SIZE - 2 - Len(content))

\* BlobData::fill(blobs, index): the blob at index, if there is one and it is
\* not empty or all zero
BlobFill(blobs, index) ==
    IF index >= Len(blobs) THEN Err("InvalidLength")
    ELSE IF blobs[index + 1] = Zeros(Len(blobs[index + 1])) THEN Err("MissingData")
    ELSE Ok(blobs[index + 1])

\* BlobData::decode
BlobDecode(blob) ==
    IF Len(blob) < 2 \/ blob[1] # 0 THEN Err("InvalidEncodingVersion")
    ELSE IF blob[2] > Len(blob) - 2 THEN Err("InvalidLength")
    ELSE Ok(SubSeq(blob, 3, 2 + blob[2]))

\* ------------------------------------------------ derivation source: providers
\* frames
Fr(n) == <<n>>
WideFrame == <<200, 7>>

\* quorum ids of a complete reference
Quorums == <<0, 1>>

\* commitments the DA provider knows: a blob longer than the declared length,
\* none, a list holding a list, a blob shorter than the declared length
CommitA == <<1>>
CommitBad == <<3>>
CommitNested == <<4>>
CommitShort == <<5>>

\* EigenDAProvider::blob_get of the source's provider
DaBlobGet(commitment) ==
    IF commitment = CommitA THEN Ok(RlpEncodeList(<<Fr(3), Fr(4)>>) \o <<0, 0>>)
    ELSE IF commitment = CommitNested THEN Ok(<<193, 192>>)
    ELSE IF commitment = CommitShort THEN Ok(<<192>>)
    ELSE Err("blob not available")

\* versioned hashes and the blobs behind them: two blobs that carry one list
\* between them, a blob of an unknown version, a blob with a whole list, an
\* all-zero blob, a blob no provider has, and a blob of another sender
HashHead == 11
HashTail == 12
HashBadVersion == 13
HashWhole == 14
HashZero == 15
HashMissing == 16
HashForeign == 19

SplitList == RlpEncodeList(<<Fr(6), WideFrame>>)

BlobOf(hash) ==
    IF hash = HashHead THEN EncodePlainBlob(SubSeq(SplitList, 1, 3))
    ELSE IF hash = HashTail THEN EncodePlainBlob(SubSeq(SplitList, 4, Len(SplitList)))
    ELSE IF hash = HashBadVersion THEN <<9>> \o Zeros(BLOB_SIZE - 1)
    ELSE IF hash = HashWhole THEN EncodePlainBlob(RlpEncodeList(<<Fr(8)>>))
    ELSE IF hash = HashZero THEN Zeros(BLOB_SIZE)
    ELSE EncodePlainBlob(<<255>>)

\* batcher transactions
InlineTx(frame) ==
    Tx("Eip1559", BatcherInbox, BatcherSigner,
       <<DERIVATION_VERSION_EIGEN_DA>> \o EncodeFrame(frame), <<>>)

RefTx(commitment, blob_length, quorum_ids) ==
    Tx("Eip1559", BatcherInbox, BatcherSigner,
       <<DERIVATION_VERSION_EIGEN_DA>> \o EncodeFrameRef(commitment, blob_length, quorum_ids),
       <<>>)

BlobTx(hashes) == Tx("Eip4844", BatcherInbox, BatcherSigner, <<>>, hashes)

\* the blocks of the chain, by block hash
BlockRefs ==
    {"mixed", "empty_quorum", "da_error", "calldata_blob", "bad_blob", "chain_error",
     "bad_proto", "bad_rlp", "short_ref", "zero_blob", "missing_blob", "no_batch"}

ChainTxs(ref) ==
    CASE ref = "mixed" ->
           << InlineTx(Fr(1)),
              Tx("Eip4844", OtherAddress, BatcherSigner, <<>>, <<HashForeign>>),
              RefTx(CommitA, 3, Quorums),
              Tx("Eip1559", BatcherInbox, OtherAddress,
                 <<DERIVATION_VERSION_EIGEN_DA>> \o EncodeFrame(Fr(9)), <<>>),
              Tx("Legacy", BatcherInbox, InvalidSignature,
                 <<DERIVATION_VERSION_EIGEN_DA>> \o EncodeFrame(Fr(10)), <<>>),
              BlobTx(<<HashHead, HashTail>>),
              InlineTx(Fr(2)) >>
      [] ref = "empty_quorum" -> << RefTx(CommitA, 3, <<>>) >>
      [] ref = "da_error" -> << InlineTx(Fr(1)), RefTx(CommitBad, 3, Quorums), InlineTx(Fr(2)) >>
      [] ref = "calldata_blob" ->
           << Tx("Eip4844", BatcherInbox, BatcherSigner,
                 <<DERIVATION_VERSION_EIGEN_DA>> \o EncodeFrame(Fr(1)), <<HashForeign>>),
              BlobTx(<<HashWhole>>) >>
      [] ref = "bad_blob" -> << BlobTx(<<HashWhole, HashBadVersion>>) >>
      [] ref = "bad_proto" ->
           << InlineTx(Fr(1)),
              Tx("Eip2930", BatcherInbox, BatcherSigner,
                 <<DERIVATION_VERSION_EIGEN_DA, 7, 7>>, <<>>) >>
      [] ref = "bad_rlp" -> << InlineTx(Fr(1)), RefTx(CommitNested, 2, Quorums) >>
      [] ref = "short_ref" -> << InlineTx(Fr(1)), RefTx(CommitShort, 4, Quorums) >>
      [] ref = "zero_blob" -> << InlineTx(Fr(1)), BlobTx(<<HashWhole, HashZero>>) >>
      [] ref = "missing_blob" -> << InlineTx(Fr(1)), BlobTx(<<HashMissing>>) >>
      [] ref = "no_batch" ->
           << Tx("Eip7702", BatcherInbox, BatcherSigner,
                 <<DERIVATION_VERSION_EIGEN_DA>> \o EncodeFrame(Fr(1)), <<>>),
              Tx("Legacy", NoAddress, BatcherSigner,
                 <<DERIVATION_VERSION_EIGEN_DA>> \o EncodeFrame(Fr(2)), <<>>),
              Tx("Eip1559", BatcherInbox, BatcherSigner, <<0, 1>> \o EncodeFrame(Fr(3)), <<>>),
              Tx("Eip1559", BatcherInbox, BatcherSigner, <<DERIVATION_VERSION_EIGEN_DA>>, <<>>),
              Tx("Eip1559", BatcherInbox, BatcherSigner, <<>>, <<>>) >>
      [] OTHER -> <<>>

\* ChainProvider::block_info_and_transactions_by_hash
BlockInfoAndTransactionsByHash(ref) ==
    IF ref = "chain_error" THEN Err("Backend") ELSE Ok(ChainTxs(ref))

\* every versioned hash of a block, in block order: position k holds the hash
\* of the block's blob k - 1
RECURSIVE AllHashes(_)
AllHashes(txs) ==
    IF Len(txs) = 0 THEN <<>>
    ELSE Head(txs).blob_versioned_hashes \o AllHashes(Tail(txs))

\* BlobProvider::get_blobs: the block's blob at each requested index, checked
\* against the requested hash
GetBlobs(ref, hashes) ==
    IF \E k \in DOMAIN hashes :
           \/ hashes[k].index >= Len(AllHashes(ChainTxs(ref)))
           \/ AllHashes(ChainTxs(ref))[hashes[k].index + 1] # hashes[k].hash
           \/ hashes[k].hash = HashMissing
    THEN Err("Backend")
    ELSE Ok([k \in DOMAIN hashes |-> BlobOf(hashes[k].hash)])

\* ------------------------------------------------ derivation source: load
\* records of the provider calls a load makes
ChainCall(ref) == [call |-> "chain", ref |-> ref, arg |-> <<>>]
DaCall(commitment) == [call |-> "da", ref |-> "", arg |-> commitment]
BlobsCall(ref, hashes) == [call |-> "blobs", ref |-> ref, arg |-> hashes]

\* the locals of data_from_eigen_da, the calls made and how the scan stands
ScanStart == [data |-> <<>>, hashes |-> <<>>, index |-> 0, calls |-> <<>>,
              status |-> "ok", err |-> ""]

ScanFail(acc, e) == [acc EXCEPT !.status = "err", !.err = e]

\* for blob in blob_hashes { hashes.push(IndexedBlobHash { hash: blob, index }); index += 1 }
RECURSIVE RecordHashes(_, _)
RecordHashes(acc, blob_hashes) ==
    IF Len(blob_hashes) = 0 THEN acc
    ELSE RecordHashes([acc EXCEPT !.hashes = Append(@, IndexedBlobHash(Head(blob_hashes), acc.index)),
                                  !.index = @ + 1],
                      Tail(blob_hashes))

\* the quorum test of a reference, always passing
QuorumsMissingNever(frame_ref) == FALSE

\* frame_ref.quorum_ids.is_empty()
QuorumsMissing(frame_ref) == Len(frame_ref.quorum_ids) = 0

\* a transaction with calldata that starts with DERIVATION_VERSION_EIGEN_DA
ScanCalldata(acc, blob_data) ==
    LET calldata_frame == DecodeCalldataFrame(blob_data)
    IN  IF ~calldata_frame.ok THEN ScanFail(acc, "ProtoDecodeError")
        ELSE IF calldata_frame.value = "none" THEN acc
        ELSE IF calldata_frame.value = "frame"
        THEN [acc EXCEPT !.data = Append(@, calldata_frame.frame)]
        ELSE IF QuorumsMissing(calldata_frame) THEN acc
        ELSE LET got == DaBlobGet(calldata_frame.commitment)
                 called == [acc EXCEPT !.calls = Append(@, DaCall(calldata_frame.commitment))]
             IN  IF ~got.ok THEN ScanFail(called, "Status")
                 ELSE IF calldata_frame.blob_length > Len(got.val)
                 THEN [called EXCEPT !.status = "panic"]
                 ELSE LET list == RlpDecodeList(SubSeq(got.val, 1, calldata_frame.blob_length))
                      IN  IF ~list.ok THEN ScanFail(called, "RLPDecodeError")
                          ELSE [called EXCEPT !.data = @ \o list.val]

\* the batcher filter that lets every sender through
IsBatcherTxAnySigner(tx, expected) == tx.to = BatcherInbox

\* to == self.batcher_address and the recovered signer is batcher_address
IsBatcherTx(tx, expected) ==
    tx.to = BatcherInbox /\ RecoverSignerOrDefault(tx) = expected

\* one iteration of for tx in txs
ScanTx(acc, tx, expected) ==
    IF tx.ty \notin KnownTxTypes \/ tx.to = NoAddress THEN acc
    ELSE IF ~IsBatcherTx(tx, expected) THEN [acc EXCEPT !.index = @ + HashCount(tx)]
    ELSE IF Len(tx.input) = 0
    THEN IF tx.ty = "Eip4844" /\ BlobHashesOf(tx).some
         THEN RecordHashes(acc, BlobHashesOf(tx).hashes)
         ELSE acc
    ELSE IF tx.input[1] = DERIVATION_VERSION_EIGEN_DA
    THEN ScanCalldata(acc, Tail(tx.input))
    ELSE acc

\* the loop over txs from the k-th on; an error or a panic ends it
RECURSIVE ScanFrom(_, _, _, _)
ScanFrom(txs, k, acc, expected) ==
    IF k > Len(txs) \/ acc.status # "ok" THEN acc
    ELSE ScanFrom(txs, k + 1, ScanTx(acc, txs[k], expected), expected)

\* EigenDASource::data_from_eigen_da
DataFromEigenDA(txs, batcher_address) == ScanFrom(txs, 1, ScanStart, batcher_address)

\* the loop over blob_hashes in load_blobs: n iterations left, blob_index,
\* whole_blob_data so far
RECURSIVE WholeBlobData(_, _, _, _)
WholeBlobData(blobs, n, blob_index, whole) ==
    IF n = 0 THEN Ok(whole)
    ELSE LET filled == BlobFill(blobs, blob_index)
         IN  IF ~filled.ok THEN Err("Backend")
             ELSE LET d == BlobDecode(filled.val)
                  IN  WholeBlobData(blobs, n - 1, blob_index + 1,
                                    IF d.ok THEN whole \o d.val ELSE whole)

\* what load_blobs leaves: the queue, the flag, its result and its calls
Loaded(status, err, queue, isOpen, calls) ==
    [status |-> status, err |-> err, data |-> queue, open |-> isOpen, calls |-> calls]

\* load_blobs putting the frames of plain blobs before the scanned ones
JoinBlobsFirst(blob_data, rlp_blob) == rlp_blob \o blob_data

\* for blob in rlp_blob.0 { blob_data.push(Bytes::from(blob)) }
Join(blob_data, rlp_blob) == blob_data \o rlp_blob

\* the part of load_blobs after the scan, when blob hashes were recorded
LoadPlainBlobs(ref, scan, queue, calls) ==
    LET blobs == GetBlobs(ref, scan.hashes)
        called == Append(calls, BlobsCall(ref, scan.hashes))
    IN  IF ~blobs.ok THEN Loaded("err", "Backend", queue, FALSE, called)
        ELSE LET whole == WholeBlobData(blobs.val, Len(scan.hashes), 0, <<>>)
             IN  IF ~whole.ok THEN Loaded("err", "Backend", queue, FALSE, called)
                 ELSE LET rlp_blob == RlpDecodeList(whole.val)
                      IN  IF ~rlp_blob.ok
                          THEN Loaded("err", "RLPDecodeError", queue, FALSE, called)
                          ELSE Loaded("ok", "", Join(scan.data, rlp_blob.val), TRUE, called)

\* a failed scan that leaves the frames scanned so far in the queue
ScanFailedKeepsFrames(scan, queue, calls) ==
    Loaded("err", scan.err, scan.data, FALSE, calls)

\* the ? on data_from_eigen_da: load_blobs returns the error, self untouched
ScanFailed(scan, queue, calls) == Loaded("err", scan.err, queue, FALSE, calls)

\* load_blobs past its open test
LoadClosed(ref, batcher_address, queue) ==
    LET info == BlockInfoAndTransactionsByHash(ref)
        c1 == <<ChainCall(ref)>>
    IN  IF ~info.ok THEN Loaded("err", "Backend", queue, FALSE, c1)
        ELSE LET scan == DataFromEigenDA(info.val, batcher_address)
                 c2 == c1 \o scan.calls
             IN  IF scan.status = "panic" THEN Loaded("panic", "", queue, FALSE, c2)
                 ELSE IF scan.status = "err" THEN ScanFailed(scan, queue, c2)
                 ELSE IF Len(scan.hashes) # 0
                 THEN LoadPlainBlobs(ref, scan, queue, c2)
                 ELSE Loaded("ok", "", scan.data, TRUE, c2)

\* load_blobs loading whether or not the source is open
LoadBlobsAlways(ref, batcher_address, queue, isOpen) ==
    LoadClosed(ref, batcher_address, queue)

\* EigenDASource::load_blobs on a source with the given queue and flag
LoadBlobs(ref, batcher_address, queue, isOpen) ==
    IF isOpen THEN Loaded("ok", "", queue, TRUE, <<>>)
    ELSE LoadClosed(ref, batcher_address, queue)

\* results of next(): a frame, or a temporary pipeline error of a kind
FrameOk(frame) == [ok |-> TRUE, kind |-> "", cause |-> "", val |-> frame]
TempErr(kind, cause) == [ok |-> FALSE, kind |-> kind, cause |-> cause, val |-> <<>>]
NoFrame == TempErr("none", "")
NoArg == [ref |-> "", batcher_address |-> ""]

\* next_data taking the newest frame
NextDataNewest(queue) ==
    IF Len(queue) = 0 THEN [res |-> TempErr("Eof", ""), data |-> queue]
    ELSE [res |-> FrameOk(queue[Len(queue)]), data |-> SubSeq(queue, 1, Len(queue) - 1)]

\* EigenDASource::next_data
NextData(queue) ==
    IF Len(queue) = 0 THEN [res |-> TempErr("Eof", ""), data |-> queue]
    ELSE [res |-> FrameOk(Head(queue)), data |-> Tail(queue)]

\* ------------------------------------------------ hint tags
\* the base hint kinds and their tags (kona_proof::HintType)
BaseHints ==
    { <<"L1BlockHeader", "l1-block-header">>, <<"L1Transactions", "l1-transactions">>,
      <<"L1Receipts", "l1-receipts">>, <<"L1Blob", "l1-blob">>,
      <<"L1Precompile", "l1-precompile">>, <<"L2BlockHeader", "l2-block-header">>,
      <<"L2Transactions", "l2-transactions">>, <<"L2Code", "l2-code">>,
      <<"StartingL2Output", "starting-l2-output">>, <<"L2StateNode", "l2-state-node">>,
      <<"L2AccountProof", "l2-account-proof">>,
      <<"L2AccountStorageProof", "l2-account-storage-proof">> }

\* enum HintWrapper { Standard(HintType), EigenDABlob }
Standard(hint) == [variant |-> "Standard", hint |-> hint]
EigenDABlob == [variant |-> "EigenDABlob", hint |-> ""]
NoHintValue == [variant |-> "", hint |-> ""]

HintWrappers == {Standard(p[1]) : p \in BaseHints} \cup {EigenDABlob}

\* Result<HintWrapper, HintParsingError>
Parsed(h) == [ok |-> TRUE, err |-> "", val |-> h]
ParseFailed(e) == [ok |-> FALSE, err |-> e, val |-> NoHintValue]

\* HintType::from_str
HintTypeFromStr(s) ==
    IF \E p \in BaseHints : p[2] = s
    THEN [ok |-> TRUE, val |-> (CHOOSE p \in BaseHints : p[2] = s)[1]]
    ELSE [ok |-> FALSE, val |-> ""]

\* <HintType as Display>::fmt
HintTypeDisplay(hint) == (CHOOSE p \in BaseHints : p[1] = hint)[2]

\* <HintWrapper as FromStr>::from_str
FromStr(s) ==
    IF HintTypeFromStr(s).ok THEN Parsed(Standard(HintTypeFromStr(s).val))
    ELSE IF s = "eigen-da-blob" THEN Parsed(EigenDABlob)
    ELSE ParseFailed("unknown hint")

\* Display that prints the EigenDABlob tag with underscores
DisplayUnderscores(h) ==
    IF h.variant = "Standard" THEN HintTypeDisplay(h.hint) ELSE "eigen_da_blob"

\* <HintWrapper as Display>::fmt
Display(h) ==
    IF h.variant = "Standard" THEN HintTypeDisplay(h.hint) ELSE "eigen-da-blob"

\* texts handed to the parser: every tag, and texts that are no tag
Tags ==
    {p[2] : p \in BaseHints}
    \cup {"eigen-da-blob", "", "eigen-da-blob ", "EIGEN-DA-BLOB", "eigen_da_blob",
          "eigenda-blob", "l1-blob-header", "L1BlockHeader", "EigenDABlob", "l2-codes"}

NoHint == [pc |-> "start", text |-> "", value |-> ParseFailed("none"), back |-> "",
           again |-> ParseFailed("none")]

\* ------------------------------------------------ state
Tasks == {1, 2}

VARIABLES
    store,      \* the key-value store: PreimageKey -> bytes
    kvLock,     \* holder of the store's write lock, 0 when free
    served,     \* what the proxy serves: commitment -> body, fixed at first fetch
    hpc,        \* position of each fetch_hint task
    hdata,      \* hint.data of the hint being handled
    hblob,      \* the bytes fetched for it
    hi,         \* the loop index i
    hres,       \* the result of the last handling
    hwrites,    \* number of kv set calls of the current handling
    wlog,       \* the task of every kv set call, in order
    writer,     \* key -> the hint data of the handling that set the entry
    cpc,        \* position of each blob_get task
    ccommit,    \* the commitment argument
    ci,         \* the loop index i
    cbuf,       \* the blob buffer being assembled
    cres,       \* the result of the last finished call
    cprev,      \* result of the call before, when it was for the same commitment
                \* and its hint was handled successfully
    calls,      \* number of finished or aborted calls
    csent,      \* whether the current call has sent its hint
    lastRead,   \* the key of the last payload read of the current call
    open,       \* EigenDASource.open
    data,       \* EigenDASource.data, the queue of frames
    spc,        \* "ready", or "panicked" once a next() call has panicked
    sop,        \* the last operation on the source: "none", "next", "clear"
    sarg,       \* the arguments of the last next(): block_ref, batcher_address
    sopen0,     \* EigenDASource.open when the last next() was called
    sres,       \* what the last next() returned
    scalls,     \* the provider calls the last next() made, in order
    delivered,  \* the frames next() returned since the last successful load
    firstDrain, \* arguments -> the frames of the first complete drain
    ppc,        \* the proxy client: "idle", "sent"
    preq,       \* the commitment of the last GET
    preply,     \* what came back for it
    pres,       \* what retrieve_blob_with_commitment returned for it
    hgets,      \* what came back for each proxy GET of the current handling
    hw          \* the hint tag conversions: position, text, value, text again

srcvars == <<open, data, spc, sop, sarg, sopen0, sres, scalls, delivered, firstDrain>>
proxyvars == <<ppc, preq, preply, pres>>

vars == <<store, kvLock, served, hpc, hdata, hblob, hi, hres, hwrites, wlog,
          writer, cpc, ccommit, ci, cbuf, cres, cprev, calls, csent, lastRead,
          srcvars, proxyvars, hgets, hw>>

hvars == <<hpc, hdata, hblob, hi, hres, hwrites, hgets>>
cvars == <<cpc, ccommit, ci, cbuf, cres, cprev, calls, csent, lastRead>>
kvvars == <<store, wlog, writer>>

NoKey == PreimageKey(<<>>, "none")
NoResult == Err("none")
NoReply == Reply("none", 0, <<>>)

\* the record of complete drains: the first one of a block, and whether the
\* block has been loaded again since
NoDrain == [arg |-> NoArg, frames |-> <<>>, reloaded |-> FALSE]

\* EigenDASource::new: an empty queue, closed
InitSource ==
    /\ open = FALSE
    /\ data = <<>>
    /\ spc = "ready"
    /\ sop = "none"
    /\ sarg = NoArg
    /\ sopen0 = FALSE
    /\ sres = NoFrame
    /\ scalls = <<>>
    /\ delivered = <<>>
    /\ firstDrain = NoDrain

\* EigenDAProxy::new: no request made
InitProxy ==
    /\ ppc = "idle"
    /\ preq = <<>>
    /\ preply = NoReply
    /\ pres = NoResult

InitHint == hw = NoHint

Init ==
    /\ store = <<>>
    /\ kvLock = 0
    /\ served = <<>>
    /\ hpc = [h \in Tasks |-> "idle"]
    /\ hdata = [h \in Tasks |-> <<>>]
    /\ hblob = [h \in Tasks |-> <<>>]
    /\ hi = [h \in Tasks |-> 0]
    /\ hres = [h \in Tasks |-> NoResult]
    /\ hwrites = [h \in Tasks |-> 0]
    /\ hgets = [h \in Tasks |-> <<>>]
    /\ wlog = <<>>
    /\ writer = <<>>
    /\ cpc = [c \in Tasks |-> "idle"]
    /\ ccommit = [c \in Tasks |-> <<>>]
    /\ ci = [c \in Tasks |-> 0]
    /\ cbuf = [c \in Tasks |-> <<>>]
    /\ cres = [c \in Tasks |-> NoResult]
    /\ cprev = [c \in Tasks |-> NoResult]
    /\ calls = [c \in Tasks |-> 0]
    /\ csent = [c \in Tasks |-> FALSE]
    /\ lastRead = [c \in Tasks |-> NoKey]
    /\ InitSource
    /\ InitProxy
    /\ InitHint

\* ------------------------------------------------ the store
\* KvSet adding to the value an existing entry holds
KvSetAppending(h, key, val) ==
    /\ store' = (key :> (IF key \in DOMAIN store THEN store[key] \o val ELSE val)) @@ store
    /\ wlog' = Append(wlog, h)
    /\ writer' = (key :> hdata[h]) @@ writer
    /\ hwrites' = [hwrites EXCEPT ![h] = @ + 1]

\* kv_lock.set(key, value) by task h, handling hint data d
KvSet(h, key, val) ==
    /\ store' = (key :> val) @@ store
    /\ wlog' = Append(wlog, h)
    /\ writer' = (key :> hdata[h]) @@ writer
    /\ hwrites' = [hwrites EXCEPT ![h] = @ + 1]

\* the write guard is dropped when fetch_hint returns or unwinds
Unlock(h) == IF kvLock = h THEN 0 ELSE kvLock

\* Return keeping the write guard
ReturnHoldingLock(h, res) ==
    /\ hpc' = [hpc EXCEPT ![h] = "done"]
    /\ hres' = [hres EXCEPT ![h] = res]
    /\ UNCHANGED kvLock

\* fetch_hint returns res
Return(h, res) ==
    /\ hpc' = [hpc EXCEPT ![h] = "done"]
    /\ hres' = [hres EXCEPT ![h] = res]
    /\ kvLock' = Unlock(h)

\* fetch_hint panics
Panic(h, what) ==
    /\ hpc' = [hpc EXCEPT ![h] = "panicked"]
    /\ hres' = [hres EXCEPT ![h] = Err(what)]
    /\ kvLock' = Unlock(h)

Goto(h, label) == hpc' = [hpc EXCEPT ![h] = label]

\* ------------------------------------------------ fetch_hint, EigenDABlob arm
\* HostEnsureLen with the minimum length of the client
HostEnsureLenOfClient(h) ==
    /\ hpc[h] = "ensure"
    /\ UNCHANGED hgets
    /\ UNCHANGED <<srcvars, proxyvars, hw>>
    /\ IF Len(hdata[h]) > ClientMinLen
       THEN Goto(h, "fetch") /\ UNCHANGED <<hres, kvLock>>
       ELSE Return(h, Err("Invalid hint data length"))
    /\ UNCHANGED <<hdata, hblob, hi, hwrites, served, kvvars, cvars>>

\* ensure!(hint.data.len() > 32, "Invalid hint data length")
HostEnsureLen(h) ==
    /\ hpc[h] = "ensure"
    /\ UNCHANGED hgets
    /\ UNCHANGED <<srcvars, proxyvars, hw>>
    /\ IF Len(hdata[h]) > HOST_MIN_LEN
       THEN Goto(h, "fetch") /\ UNCHANGED <<hres, kvLock>>
       ELSE Return(h, Err("Invalid hint data length"))
    /\ UNCHANGED <<hdata, hblob, hi, hwrites, served, kvvars, cvars>>

\* HostFetch asking the proxy a second time when the first GET fails
HostFetchRetrying(h, replies) ==
    /\ hpc[h] = "fetch"
    /\ UNCHANGED <<srcvars, proxyvars, hw>>
    /\ \E reply \in replies :
         /\ GetBlob(reply).ok /\ hdata[h] \in DOMAIN served => reply.body = served[hdata[h]]
         /\ hgets' = [hgets EXCEPT ![h] = Append(@, <<reply.kind, reply.status>>)]
         /\ LET r == GetBlob(reply)
            IN  IF r.ok
                THEN /\ hblob' = [hblob EXCEPT ![h] = r.val]
                     /\ served' = [k \in DOMAIN served \cup {hdata[h]} |->
                                      IF k = hdata[h] THEN r.val ELSE served[k]]
                     /\ Goto(h, "lock")
                     /\ UNCHANGED <<hres, kvLock>>
                ELSE /\ IF hgets[h] = <<>>
                        THEN UNCHANGED <<hpc, hres, kvLock>>
                        ELSE Return(h, Err("Failed to fetch blob"))
                     /\ UNCHANGED <<hblob, served>>
    /\ UNCHANGED <<hdata, hi, hwrites, kvvars, cvars>>

\* providers.eigen_da.get_blob(&commitment).await
HostFetch(h, replies) ==
    /\ hpc[h] = "fetch"
    /\ UNCHANGED <<srcvars, proxyvars, hw>>
    /\ \E reply \in replies :
         /\ GetBlob(reply).ok /\ hdata[h] \in DOMAIN served => reply.body = served[hdata[h]]
         /\ hgets' = [hgets EXCEPT ![h] = Append(@, <<reply.kind, reply.status>>)]
         /\ LET r == GetBlob(reply)
            IN  IF r.ok
                THEN /\ hblob' = [hblob EXCEPT ![h] = r.val]
                     /\ served' = [k \in DOMAIN served \cup {hdata[h]} |->
                                      IF k = hdata[h] THEN r.val ELSE served[k]]
                     /\ Goto(h, "lock")
                     /\ UNCHANGED <<hres, kvLock>>
                ELSE /\ Return(h, Err("Failed to fetch blob"))
                     /\ UNCHANGED <<hblob, served>>
    /\ UNCHANGED <<hdata, hi, hwrites, kvvars, cvars>>

\* HostLock taking the store without waiting for the lock
HostLockNoWait(h) ==
    /\ hpc[h] = "lock"
    /\ UNCHANGED hgets
    /\ UNCHANGED <<srcvars, proxyvars, hw>>
    /\ kvLock' = h
    /\ hpc' = [hpc EXCEPT ![h] = "decode"]
    /\ UNCHANGED <<hdata, hblob, hi, hres, hwrites, served, kvvars, cvars>>

\* let mut kv_lock = kv.write().await
HostLock(h) ==
    /\ hpc[h] = "lock"
    /\ UNCHANGED hgets
    /\ UNCHANGED <<srcvars, proxyvars, hw>>
    /\ kvLock = 0
    /\ kvLock' = h
    /\ Goto(h, "decode")
    /\ UNCHANGED <<hdata, hblob, hi, hres, hwrites, served, kvvars, cvars>>

\* HostDecodeCert storing the hint data under its digest before decoding it
HostDecodeCertStoring(h) ==
    /\ hpc[h] = "decode"
    /\ UNCHANGED hgets
    /\ UNCHANGED <<srcvars, proxyvars, hw>>
    /\ KvSet(h, PreimageKey(Keccak256(hdata[h]), "Keccak256"), hdata[h])
    /\ IF CertOf(hdata[h]).ok
       THEN Goto(h, "assert") /\ UNCHANGED <<hres, kvLock>>
       ELSE Return(h, Err("Failed to decode blob info"))
    /\ UNCHANGED <<hdata, hblob, hi, served, cvars>>

\* BlobInfo::decode(&mut &commitment[3..])
HostDecodeCert(h) ==
    /\ hpc[h] = "decode"
    /\ UNCHANGED hgets
    /\ UNCHANGED <<srcvars, proxyvars, hw>>
    /\ IF CertOf(hdata[h]).ok
       THEN Goto(h, "assert") /\ UNCHANGED <<hres, kvLock>>
       ELSE Return(h, Err("Failed to decode blob info"))
    /\ UNCHANGED <<hdata, hblob, hi, hwrites, served, kvvars, cvars>>

\* assert!(eigenda_blob.blob.len() <= blob_length * BYTES_PER_FIELD_ELEMENT)
HostAssertSize(h) ==
    /\ hpc[h] = "assert"
    /\ UNCHANGED hgets
    /\ UNCHANGED <<srcvars, proxyvars, hw>>
    /\ IF SizeOk(EncodeBlob(hblob[h]), CertOf(hdata[h]).data_length)
       THEN /\ Goto(h, "fe_key")
            /\ hi' = [hi EXCEPT ![h] = 0]
            /\ UNCHANGED <<hres, kvLock>>
       ELSE /\ Panic(h, "EigenDA blob size exceeds expected size")
            /\ UNCHANGED hi
    /\ UNCHANGED <<hdata, hblob, hwrites, served, kvvars, cvars>>

\* for i in 0..blob_length: set(Keccak256 key of blob_key, blob_key)
HostSetFieldKey(h) ==
    /\ hpc[h] = "fe_key"
    /\ UNCHANGED hgets
    /\ UNCHANGED <<srcvars, proxyvars, hw>>
    /\ LET cert == CertOf(hdata[h])
           blob_key == BlobKey(cert.x, cert.y, hi[h])
       IN  IF hi[h] < cert.data_length
           THEN /\ KvSet(h, PreimageKey(Keccak256(blob_key), "Keccak256"), blob_key)
                /\ Goto(h, "fe_data")
           ELSE /\ Goto(h, "witness")
                /\ UNCHANGED <<kvvars, hwrites>>
    /\ UNCHANGED <<hdata, hblob, hi, hres, kvLock, served, cvars>>

\* set(GlobalGeneric key of blob_key, data_slice)
HostSetFieldElement(h) ==
    /\ hpc[h] = "fe_data"
    /\ UNCHANGED hgets
    /\ UNCHANGED <<srcvars, proxyvars, hw>>
    /\ LET cert == CertOf(hdata[h])
           blob_key == BlobKey(cert.x, cert.y, hi[h])
       IN  KvSet(h, PreimageKey(Keccak256(blob_key), "GlobalGeneric"),
                 FieldElement(EncodeBlob(hblob[h]), hi[h]))
    /\ hi' = [hi EXCEPT ![h] = @ + 1]
    /\ Goto(h, "fe_key")
    /\ UNCHANGED <<hdata, hblob, hres, kvLock, served, cvars>>

\* witness.push_witness(&blob)
HostPushWitness(h) ==
    /\ hpc[h] = "witness"
    /\ UNCHANGED hgets
    /\ UNCHANGED <<srcvars, proxyvars, hw>>
    /\ \E ok \in BOOLEAN :
         IF ok
         THEN Goto(h, "check") /\ UNCHANGED <<hres, kvLock>>
         ELSE Return(h, Err("eigen da blob push witness error"))
    /\ UNCHANGED <<hdata, hblob, hi, hwrites, served, kvvars, cvars>>

\* last_commitment[..32] != x || last_commitment[32..64] != y
HostCheckCommitment(h) ==
    /\ hpc[h] = "check"
    /\ UNCHANGED hgets
    /\ UNCHANGED <<srcvars, proxyvars, hw>>
    /\ LET cert == CertOf(hdata[h])
           last_commitment == EncodeBlob(hblob[h])
       IN  IF Len(last_commitment) < BYTES_PER_FIELD_ELEMENT
           THEN Panic(h, "slice index out of range")
           ELSE IF Slice(last_commitment, 0, BYTES_PER_FIELD_ELEMENT) # cert.x
           THEN Return(h, Err("proxy commitment is different from computed commitment proxy"))
           ELSE IF Len(last_commitment) < 2 * BYTES_PER_FIELD_ELEMENT
           THEN Panic(h, "slice index out of range")
           ELSE IF Slice(last_commitment, BYTES_PER_FIELD_ELEMENT, 2 * BYTES_PER_FIELD_ELEMENT) # cert.y
           THEN Return(h, Err("proxy commitment is different from computed commitment proxy"))
           ELSE Goto(h, "proof_key") /\ UNCHANGED <<hres, kvLock>>
    /\ UNCHANGED <<hdata, hblob, hi, hwrites, served, kvvars, cvars>>

\* HostSetProofKey without the self-describing entry of the proof key
HostSkipProofKey(h) ==
    /\ hpc[h] = "proof_key"
    /\ UNCHANGED hgets
    /\ UNCHANGED <<srcvars, proxyvars, hw>>
    /\ hpc' = [hpc EXCEPT ![h] = "proof"]
    /\ UNCHANGED <<hdata, hblob, hi, hres, hwrites, kvLock, served, kvvars, cvars>>

\* set(Keccak256 key of kzg_proof_key, kzg_proof_key)
HostSetProofKey(h) ==
    /\ hpc[h] = "proof_key"
    /\ UNCHANGED hgets
    /\ UNCHANGED <<srcvars, proxyvars, hw>>
    /\ LET cert == CertOf(hdata[h])
           key == KzgProofKey(cert.x, cert.y)
       IN  KvSet(h, PreimageKey(Keccak256(key), "Keccak256"), key)
    /\ Goto(h, "proof")
    /\ UNCHANGED <<hdata, hblob, hi, hres, kvLock, served, cvars>>

\* set(GlobalGeneric key of kzg_proof_key, proof)
HostSetProof(h) ==
    /\ hpc[h] = "proof"
    /\ UNCHANGED hgets
    /\ UNCHANGED <<srcvars, proxyvars, hw>>
    /\ LET cert == CertOf(hdata[h])
           key == KzgProofKey(cert.x, cert.y)
       IN  KvSet(h, PreimageKey(Keccak256(key), "GlobalGeneric"), WitnessProof(hblob[h]))
    /\ Goto(h, "commitment_key")
    /\ UNCHANGED <<hdata, hblob, hi, hres, kvLock, served, cvars>>

\* set(Keccak256 key of kzg_commitment_key, kzg_commitment_key)
HostSetCommitmentKey(h) ==
    /\ hpc[h] = "commitment_key"
    /\ UNCHANGED hgets
    /\ UNCHANGED <<srcvars, proxyvars, hw>>
    /\ LET cert == CertOf(hdata[h])
           key == KzgCommitmentKey(cert.x, cert.y)
       IN  KvSet(h, PreimageKey(Keccak256(key), "Keccak256"), key)
    /\ Goto(h, "commitment")
    /\ UNCHANGED <<hdata, hblob, hi, hres, kvLock, served, cvars>>

\* set(GlobalGeneric key of kzg_commitment_key, commitment); Ok(())
HostSetCommitment(h) ==
    /\ hpc[h] = "commitment"
    /\ UNCHANGED hgets
    /\ UNCHANGED <<srcvars, proxyvars, hw>>
    /\ LET cert == CertOf(hdata[h])
           key == KzgCommitmentKey(cert.x, cert.y)
       IN  KvSet(h, PreimageKey(Keccak256(key), "GlobalGeneric"), WitnessCommitment(hblob[h]))
    /\ Return(h, Ok(<<>>))
    /\ UNCHANGED <<hdata, hblob, hi, served, cvars>>

\* ------------------------------------------------ blob_get
\* oracle.get_exact(key, &mut [u8; 32]): the entry, when it is there and 32 bytes
GetExact(key, n) ==
    IF key \notin DOMAIN store THEN Err("key not found")
    ELSE IF Len(store[key]) # n THEN Err("buffer length mismatch")
    ELSE Ok(store[key])

\* CopySlot copying only the header field element (slot 0)
CopySlotHeaderOnly(buf, i, fe) ==
    [k \in 1..Len(buf) |->
        IF i = 0 /\ k <= BYTES_PER_FIELD_ELEMENT THEN fe[k] ELSE buf[k]]

\* blob[(i << 5)..((i + 1) << 5)].copy_from_slice(field_element)
CopySlot(buf, i, fe) ==
    [k \in 1..Len(buf) |->
        IF k > i * BYTES_PER_FIELD_ELEMENT /\ k <= (i + 1) * BYTES_PER_FIELD_ELEMENT
        THEN fe[k - i * BYTES_PER_FIELD_ELEMENT] ELSE buf[k]]

\* ReadKey in the self-describing namespace
ReadKeySelfDescribing(commitment, i) ==
    PreimageKey(Keccak256(BlobKey(CertOf(commitment).x, CertOf(commitment).y, i)),
                "Keccak256")

\* the payload key blob_get reads for index i
ReadKey(commitment, i) ==
    PreimageKey(Keccak256(BlobKey(CertOf(commitment).x, CertOf(commitment).y, i)),
                "GlobalGeneric")

\* blob_get returns res
ClientReturn(c, res) ==
    /\ cpc' = [cpc EXCEPT ![c] = "idle"]
    /\ cres' = [cres EXCEPT ![c] = res]

\* the caller invokes blob_get(commitment)
BlobGet(c, commitment, limit) ==
    /\ cpc[c] = "idle"
    /\ UNCHANGED <<srcvars, proxyvars, hw>>
    /\ hpc[c] = "idle"
    /\ calls[c] < limit
    /\ calls' = [calls EXCEPT ![c] = @ + 1]
    /\ cprev' = [cprev EXCEPT ![c] =
                    IF commitment = ccommit[c] /\ hres[c].ok THEN cres[c] ELSE NoResult]
    /\ ccommit' = [ccommit EXCEPT ![c] = commitment]
    /\ cres' = [cres EXCEPT ![c] = NoResult]
    /\ csent' = [csent EXCEPT ![c] = FALSE]
    /\ ci' = [ci EXCEPT ![c] = 0]
    /\ cbuf' = [cbuf EXCEPT ![c] = <<>>]
    /\ lastRead' = [lastRead EXCEPT ![c] = NoKey]
    /\ cpc' = [cpc EXCEPT ![c] = "send"]
    /\ UNCHANGED <<hvars, kvLock, served, kvvars>>

\* ClientSendHint sending no hint for the commitment of the previous call
ClientSendHintOnce(c) ==
    /\ cpc[c] = "send"
    /\ UNCHANGED <<srcvars, proxyvars, hw>>
    /\ IF cprev[c] # NoResult
       THEN /\ cpc' = [cpc EXCEPT ![c] = "len"]
            /\ UNCHANGED <<csent, hvars>>
       ELSE /\ csent' = [csent EXCEPT ![c] = TRUE]
            /\ cpc' = [cpc EXCEPT ![c] = "hint_sent"]
            /\ hpc' = [hpc EXCEPT ![c] = "ensure"]
            /\ hdata' = [hdata EXCEPT ![c] = ccommit[c]]
            /\ hblob' = [hblob EXCEPT ![c] = <<>>]
            /\ hi' = [hi EXCEPT ![c] = 0]
            /\ hres' = [hres EXCEPT ![c] = NoResult]
            /\ hwrites' = [hwrites EXCEPT ![c] = 0]
            /\ hgets' = [hgets EXCEPT ![c] = <<>>]
    /\ UNCHANGED <<ccommit, ci, cbuf, cres, cprev, calls, lastRead, kvLock, served, kvvars>>

\* Hint::new(HintWrapper::EigenDABlob, commitment).send(oracle): the hint reaches
\* the host, which starts fetch_hint on it
ClientSendHint(c) ==
    /\ cpc[c] = "send"
    /\ UNCHANGED <<srcvars, proxyvars, hw>>
    /\ csent' = [csent EXCEPT ![c] = TRUE]
    /\ cpc' = [cpc EXCEPT ![c] = "hint_sent"]
    /\ hpc' = [hpc EXCEPT ![c] = "ensure"]
    /\ hdata' = [hdata EXCEPT ![c] = ccommit[c]]
    /\ hblob' = [hblob EXCEPT ![c] = <<>>]
    /\ hi' = [hi EXCEPT ![c] = 0]
    /\ hres' = [hres EXCEPT ![c] = NoResult]
    /\ hwrites' = [hwrites EXCEPT ![c] = 0]
    /\ hgets' = [hgets EXCEPT ![c] = <<>>]
    /\ UNCHANGED <<ccommit, ci, cbuf, cres, cprev, calls, lastRead, kvLock, served, kvvars>>

\* HintAck with a send that does not wait for the host
HintAckEarly(c) ==
    /\ cpc[c] = "hint_sent"
    /\ UNCHANGED <<srcvars, proxyvars, hw>>
    /\ cpc' = [cpc EXCEPT ![c] = "len"]
    /\ UNCHANGED <<hvars, ccommit, ci, cbuf, cres, cprev, calls, csent, lastRead,
                   kvLock, served, kvvars>>

\* .await of the send: the host acknowledges once fetch_hint has returned
HintAck(c) ==
    /\ cpc[c] = "hint_sent"
    /\ UNCHANGED hgets
    /\ UNCHANGED <<srcvars, proxyvars, hw>>
    /\ hpc[c] = "done"
    /\ hpc' = [hpc EXCEPT ![c] = "idle"]
    /\ cpc' = [cpc EXCEPT ![c] = "len"]
    /\ UNCHANGED <<hdata, hblob, hi, hres, hwrites, ccommit, ci, cbuf, cres, cprev,
                   calls, csent, lastRead, kvLock, served, kvvars>>

\* if commitment.len() <= 32 + 3 { return Err("does not contain header") }
ClientCheckLen(c) ==
    /\ cpc[c] = "len"
    /\ UNCHANGED <<srcvars, proxyvars, hw>>
    /\ IF Len(ccommit[c]) <= ClientMinLen
       THEN ClientReturn(c, Err("does not contain header"))
       ELSE cpc' = [cpc EXCEPT ![c] = "cert"] /\ UNCHANGED cres
    /\ UNCHANGED <<ccommit, ci, cbuf, cprev, calls, csent, lastRead, hvars, kvLock,
                   served, kvvars>>

\* BlobInfo::decode(&mut &commitment[3..]).unwrap(); vec![0; data_length * 32]
ClientDecodeCert(c) ==
    /\ cpc[c] = "cert"
    /\ UNCHANGED <<srcvars, proxyvars, hw>>
    /\ IF CertOf(ccommit[c]).ok
       THEN /\ cpc' = [cpc EXCEPT ![c] = "read"]
            /\ cbuf' = [cbuf EXCEPT ![c] =
                           Zeros(CertOf(ccommit[c]).data_length * BYTES_PER_FIELD_ELEMENT)]
       ELSE /\ cpc' = [cpc EXCEPT ![c] = "panicked"]
            /\ UNCHANGED cbuf
    /\ UNCHANGED <<ccommit, ci, cres, cprev, calls, csent, lastRead, hvars, kvLock,
                   served, kvvars>>

\* for i in 0..data_length: get_exact(key_i, &mut field_element)?; copy into slot i
ClientRead(c) ==
    /\ cpc[c] = "read"
    /\ UNCHANGED <<srcvars, proxyvars, hw>>
    /\ kvLock = 0
    /\ IF ci[c] < CertOf(ccommit[c]).data_length
       THEN LET key == ReadKey(ccommit[c], ci[c])
                r == GetExact(key, BYTES_PER_FIELD_ELEMENT)
            IN  IF r.ok
                THEN /\ cbuf' = [cbuf EXCEPT ![c] = CopySlot(@, ci[c], r.val)]
                     /\ ci' = [ci EXCEPT ![c] = @ + 1]
                     /\ lastRead' = [lastRead EXCEPT ![c] = key]
                     /\ UNCHANGED <<cpc, cres>>
                ELSE /\ ClientReturn(c, Err(r.err))
                     /\ UNCHANGED <<cbuf, ci, lastRead>>
       ELSE /\ cpc' = [cpc EXCEPT ![c] = "decode"]
            /\ UNCHANGED <<cbuf, ci, lastRead, cres>>
    /\ UNCHANGED <<ccommit, cprev, calls, csent, hvars, kvLock, served, kvvars>>

\* EigenDABlobData::new(blob).decode(), mapped to the provider error
ClientDecodeBlob(c) ==
    /\ cpc[c] = "decode"
    /\ UNCHANGED <<srcvars, proxyvars, hw>>
    /\ ClientReturn(c, DecodeBlob(cbuf[c]))
    /\ UNCHANGED <<ccommit, ci, cbuf, cprev, calls, csent, lastRead, hvars, kvLock,
                   served, kvvars>>

\* ------------------------------------------------ derivation source: operations
\* the frames next() has returned since the last load or clear(), after it
\* returned res
Delivered(res, wasOpen) ==
    (IF wasOpen THEN delivered ELSE <<>>) \o (IF res.ok THEN <<res.val>> ELSE <<>>)

\* the arguments of the load the queue comes from
LoadArg(block_ref, batcher_address) ==
    IF open THEN sarg ELSE [ref |-> block_ref, batcher_address |-> batcher_address]

Drained(arg, res, frames) ==
    IF res.kind = "Eof" /\ firstDrain.arg # arg
    THEN [arg |-> arg, frames |-> frames, reloaded |-> FALSE]
    ELSE IF firstDrain.arg = arg /\ ~open
    THEN [firstDrain EXCEPT !.reloaded = TRUE]
    ELSE firstDrain

\* EigenDASource::next
SourceNext(block_ref, batcher_address) ==
    /\ spc = "ready"
    /\ UNCHANGED <<store, kvLock, served, hvars, wlog, writer, cvars, proxyvars, hw>>
    /\ sop' = "next"
    /\ sopen0' = open
    /\ sarg' = LoadArg(block_ref, batcher_address)
    /\ LET result == LoadBlobs(block_ref, batcher_address, data, open)
       IN  /\ scalls' = result.calls
           /\ IF result.status = "panic"
              THEN /\ spc' = "panicked"
                   /\ UNCHANGED <<open, data, sres, delivered, firstDrain>>
              ELSE IF result.status = "err"
              THEN /\ sres' = TempErr("Provider", result.err)
                   /\ open' = result.open
                   /\ data' = result.data
                   /\ UNCHANGED <<spc, delivered, firstDrain>>
              ELSE LET next_data == NextData(result.data)
                   IN  /\ sres' = next_data.res
                       /\ data' = next_data.data
                       /\ open' = result.open
                       /\ delivered' = Delivered(next_data.res, open)
                       /\ firstDrain' = Drained(LoadArg(block_ref, batcher_address),
                                                next_data.res,
                                                Delivered(next_data.res, open))
                       /\ UNCHANGED spc

\* clear() leaving the flag as it is
SourceClearKeepsOpen ==
    /\ spc = "ready"
    /\ UNCHANGED <<store, kvLock, served, hvars, wlog, writer, cvars, proxyvars, hw>>
    /\ data' = <<>>
    /\ delivered' = <<>>
    /\ sop' = "clear"
    /\ UNCHANGED <<open, spc, sarg, sopen0, sres, scalls, firstDrain>>

\* EigenDASource::clear
SourceClear ==
    /\ spc = "ready"
    /\ UNCHANGED <<store, kvLock, served, hvars, wlog, writer, cvars, proxyvars, hw>>
    /\ data' = <<>>
    /\ delivered' = <<>>
    /\ open' = FALSE
    /\ sop' = "clear"
    /\ UNCHANGED <<spc, sarg, sopen0, sres, scalls, firstDrain>>

\* the signing addresses next() is called with
SignerArgs == {BatcherSigner, ZeroAddress}

NextSource ==
    \/ \E block_ref \in BlockRefs, batcher_address \in SignerArgs :
           SourceNext(block_ref, batcher_address)
    \/ SourceClear

SpecSource == Init /\ [][NextSource]_vars

\* ------------------------------------------------ proxy client
\* retrieve_blob_with_commitment sends its GET
ProxyGet(commitment) ==
    /\ ppc = "idle"
    /\ ppc' = "sent"
    /\ preq' = commitment
    /\ UNCHANGED <<preply, pres>>
    /\ UNCHANGED <<store, kvLock, served, hvars, wlog, writer, cvars, srcvars, hw>>

\* retrieve_blob_with_commitment returns on what came back
ProxyReturn(reply) ==
    /\ ppc = "sent"
    /\ ppc' = "idle"
    /\ preply' = reply
    /\ pres' = RetrieveBlobWithCommitment(reply)
    /\ UNCHANGED preq
    /\ UNCHANGED <<store, kvLock, served, hvars, wlog, writer, cvars, srcvars, hw>>

NextProxy ==
    \/ \E commitment \in Commitments : ProxyGet(commitment)
    \/ \E reply \in ProxyReplies : ProxyReturn(reply)

SpecProxy == Init /\ [][NextProxy]_vars

\* ------------------------------------------------ hint tags: conversions
\* a conversion is under way: a parsed tag waits to be formatted, or a
\* formatted value to be parsed
HintBusy == (hw.pc = "parsed" /\ hw.value.ok) \/ hw.pc = "shown"

\* tag.parse::<HintWrapper>()
HintParse(tag) ==
    /\ ~HintBusy
    /\ hw' = [hw EXCEPT !.pc = "parsed", !.text = tag, !.value = FromStr(tag)]
    /\ UNCHANGED <<store, kvLock, served, hvars, wlog, writer, cvars, srcvars, proxyvars>>

\* the parsed value, formatted
HintFormat ==
    /\ hw.pc = "parsed" /\ hw.value.ok
    /\ hw' = [hw EXCEPT !.pc = "formatted", !.back = Display(hw.value.val)]
    /\ UNCHANGED <<store, kvLock, served, hvars, wlog, writer, cvars, srcvars, proxyvars>>

\* a value, formatted
HintShow(h) ==
    /\ ~HintBusy
    /\ hw' = [hw EXCEPT !.pc = "shown", !.value = Parsed(h), !.back = Display(h)]
    /\ UNCHANGED <<store, kvLock, served, hvars, wlog, writer, cvars, srcvars, proxyvars>>

\* the formatted text, parsed
HintReparse ==
    /\ hw.pc = "shown"
    /\ hw' = [hw EXCEPT !.pc = "reparsed", !.again = FromStr(hw.back)]
    /\ UNCHANGED <<store, kvLock, served, hvars, wlog, writer, cvars, srcvars, proxyvars>>

NextHint ==
    \/ \E tag \in Tags : HintParse(tag)
    \/ HintFormat
    \/ \E h \in HintWrappers : HintShow(h)
    \/ HintReparse

SpecHint == Init /\ [][NextHint]_vars

\* ------------------------------------------------ specifications
Host(h, replies) ==
    \/ HostEnsureLen(h)
    \/ HostFetch(h, replies)
    \/ HostLock(h)
    \/ HostDecodeCert(h)
    \/ HostAssertSize(h)
    \/ HostSetFieldKey(h)
    \/ HostSetFieldElement(h)
    \/ HostPushWitness(h)
    \/ HostCheckCommitment(h)
    \/ HostSetProofKey(h)
    \/ HostSetProof(h)
    \/ HostSetCommitmentKey(h)
    \/ HostSetCommitment(h)

Client(c, commitments, limit) ==
    \/ \E commitment \in commitments : BlobGet(c, commitment, limit)
    \/ ClientSendHint(c)
    \/ HintAck(c)
    \/ ClientCheckLen(c)
    \/ ClientDecodeCert(c)
    \/ ClientRead(c)
    \/ ClientDecodeBlob(c)

\* one client and its host task on one store
Next == Client(1, Commitments, MaxCalls) \/ Host(1, Replies(RawBlobs))

Spec == Init /\ [][Next]_vars

\* two clients, each with its host task, on one store; one call each
ConcBlobs == {RawBlob(BYTES_PER_FIELD_ELEMENT - 1), RawBlob(BYTES_PER_FIELD_ELEMENT + 1)}

ConcCommitments ==
    {CommitmentFor(RawBlob(BYTES_PER_FIELD_ELEMENT - 1), 2)}
    \cup {CommitmentFor(RawBlob(BYTES_PER_FIELD_ELEMENT + 1), L) :
             L \in {MaxDataLength - 1, MaxDataLength}}

NextConc == \E t \in Tasks : Client(t, ConcCommitments, 1) \/ Host(t, Replies(ConcBlobs))

SpecConc == Init /\ [][NextConc]_vars

\* positions of fetch_hint between taking the lock and its last set
Locked == {"decode", "assert", "fe_key", "fe_data", "witness", "check", "proof_key",
           "proof", "commitment_key", "commitment"}

\* ------------------------------------------------ the store lock under fair scheduling
\* the positions of fetch_hint at which the next statement is a kv_lock.set(...)?
AtSet(h) ==
    \/ hpc[h] = "fe_key" /\ hi[h] < CertOf(hdata[h]).data_length
    \/ hpc[h] \in {"fe_data", "proof_key", "proof", "commitment_key", "commitment"}

\* kv_lock.set(...)? when the store reports an error: fetch_hint returns it
HostSetFails(h) ==
    /\ AtSet(h)
    /\ Return(h, Err("store set error"))
    /\ UNCHANGED <<hdata, hblob, hi, hwrites, hgets, served, kvvars, cvars>>
    /\ UNCHANGED <<srcvars, proxyvars, hw>>

\* what the tasks ask for: task 1 a commitment matching the served blob or
\* one without a certificate, the other tasks one with a foreign point
LockCommitments(t) ==
    IF t = 1
    THEN {CommitmentFor(RawBlob(BYTES_PER_FIELD_ELEMENT - 1), 2), Fill(ClientMinLen + 1, 1)}
    ELSE {ForeignCommitment}

\* the proxy serves the blob
LockReplies == {Reply("status", 200, RawBlob(BYTES_PER_FIELD_ELEMENT - 1))}

\* the steps of task t: its client and the handling of its hint
TaskStep(t) == Client(t, LockCommitments(t), 1) \/ Host(t, LockReplies) \/ HostSetFails(t)

NextLock == \E t \in Tasks : TaskStep(t)

\* where the tasks stand
position == <<cpc, hpc, ci>>

ClientLabels == {"idle", "send", "hint_sent", "len", "cert", "read", "decode", "panicked"}
HostLabels == {"idle", "ensure", "fetch", "lock", "done", "panicked"} \cup Locked

\* task t is not waiting: its client is not waiting for the host or for the
\* store, its handling is not waiting for the write lock
Runnable(t) ==
    \/ cpc[t] = "idle" /\ hpc[t] = "idle" /\ calls[t] < 1
    \/ cpc[t] \in {"send", "len", "cert", "decode"}
    \/ cpc[t] = "hint_sent" /\ hpc[t] = "done"
    \/ cpc[t] = "read" /\ kvLock = 0
    \/ hpc[t] \in {"ensure", "fetch"}
    \/ hpc[t] = "lock" /\ kvLock = 0
    \/ hpc[t] \in Locked

\* task t, not waiting, moves on
Runs(t) ==
    /\ Runnable(t)
    /\ \E p \in ClientLabels, q \in HostLabels, n \in 0..MaxDataLength :
         /\ <<p, q, n>> # <<cpc[t], hpc[t], ci[t]>>
         /\ cpc' = [cpc EXCEPT ![t] = p]
         /\ hpc' = [hpc EXCEPT ![t] = q]
         /\ ci' = [ci EXCEPT ![t] = n]

\* the runtime runs every task that is not waiting; the lock of the store is
\* granted in the order of the requests
SpecLock == Init /\ [][NextLock]_vars /\ \A t \in Tasks : WF_position(Runs(t))

\* ------------------------------------------------ shared predicates
\* the last blob_get call of c has returned
Finished(c) == cpc[c] = "idle" /\ calls[c] > 0

\* fetch_hint of h has fetched a blob for the hint it handles or last handled
Fetched(h) ==
    \/ hpc[h] \in Locked \cup {"lock"}
    \/ /\ hpc[h] \in {"done", "panicked", "idle"}
       /\ hres[h] # NoResult
       /\ hres[h].err \notin {"Invalid hint data length", "Failed to fetch blob"}

\* fetch_hint of h has returned Ok(()) for its last hint
Ingested(h) == hpc[h] \in {"done", "idle"} /\ hres[h].ok

MismatchError == "proxy commitment is different from computed commitment proxy"

PayloadKey(buf) == PreimageKey(Keccak256(buf), "GlobalGeneric")
SelfKey(buf) == PreimageKey(Keccak256(buf), "Keccak256")

\* ------------------------------------------------ claims
\* C1 as stated: after a successful ingestion blob_get returns
\* decode(fetch(commitment)).
C1_ReturnsDecodeOfFetched ==
    \A c \in Tasks :
        Finished(c) /\ Ingested(c) => cres[c] = DecodeBlob(served[ccommit[c]])

\* C1 amended: after a successful ingestion blob_get returns
\* decode(encode(fetch(commitment))), which are the fetched bytes, and a repeated
\* blob_get for the same commitment returns the same bytes.
C1_ReturnsDecodeOfEncodedFetched ==
    \A c \in Tasks :
        Finished(c) =>
            /\ Ingested(c) =>
                 /\ cres[c].ok
                 /\ cres[c] = DecodeBlob(EncodeBlob(served[ccommit[c]]))
                 /\ cres[c].val = served[ccommit[c]]
            /\ cprev[c].ok => cres[c] = cprev[c]

C1_Witness ==
    \E c \in Tasks :
        /\ Finished(c) /\ Ingested(c) /\ cprev[c].ok
        /\ Len(cres[c].val) > BYTES_PER_FIELD_ELEMENT

\* C2: a commitment mismatch leaves no entry written by that hint in the store.
C2_MismatchWritesNothing ==
    \A h \in Tasks : hres[h].err = MismatchError => hwrites[h] = 0

\* C3 as stated: every payload entry blob_get reads was written by the handling
\* of the hint of the very commitment blob_get was called with.
C3_ReadEntryWrittenForSameCommitment ==
    \A c \in Tasks :
        lastRead[c] # NoKey => writer[lastRead[c]] = ccommit[c]

SamePoint(a, b) ==
    /\ CertOf(a).ok /\ CertOf(b).ok
    /\ CertOf(a).x = CertOf(b).x /\ CertOf(a).y = CertOf(b).y

\* C3 amended: every payload entry blob_get reads was written before the read by
\* the host's handling of an EigenDABlob hint whose certificate has the same
\* commitment point; blob_get reads only after its hint send was acknowledged,
\* and no step of blob_get changes the store.
C3_ReadAfterHostWrite ==
    /\ [](\A c \in Tasks :
            /\ lastRead[c] # NoKey =>
                 /\ lastRead[c] \in DOMAIN store
                 /\ SamePoint(writer[lastRead[c]], ccommit[c])
            /\ cpc[c] \in {"len", "cert", "read", "decode"} =>
                 csent[c] /\ hpc[c] = "idle" /\ hres[c] # NoResult)
    /\ [][cvars' # cvars => store' = store]_vars

C3_Witness ==
    \E c \in Tasks :
        /\ cpc[c] = "read" /\ ci[c] = 2
        /\ lastRead[c] # NoKey /\ writer[lastRead[c]] # ccommit[c]

\* C4: the write sequences of two hints never interleave, and the write lock is
\* held from before the first set to after the last.
C4_WriteSequencesDoNotInterleave ==
    /\ \A i, j, k \in DOMAIN wlog : i < j /\ j < k /\ wlog[i] = wlog[k] => wlog[j] = wlog[i]
    /\ \A h \in Tasks : hpc[h] \in Locked => kvLock = h

C4_Witness ==
    \E h, g \in Tasks :
        /\ hpc[h] = "lock" /\ kvLock = g /\ g # h
        /\ hpc[g] = "fe_data" /\ hwrites[g] > 2

\* C5: after a successful ingestion blob_get returns what the online get_blob
\* returns for the commitment.
C5_OracleEqualsOnline ==
    \A c \in Tasks :
        Finished(c) /\ Ingested(c) =>
            cres[c] = GetBlob(Reply("status", 200, served[ccommit[c]]))

C5_Witness ==
    \E c \in Tasks :
        /\ Finished(c) /\ Ingested(c)
        /\ Len(cres[c].val) = BYTES_PER_FIELD_ELEMENT + 1
        /\ CertOf(ccommit[c]).data_length = 3

\* C6: after a successful ingestion stored field element i is 32 bytes: bytes
\* [32i, 32i+32) of the transformed blob, zero at and beyond its length n.
C6_FieldElementsZeroPadded ==
    \A h \in Tasks :
        hpc[h] = "done" /\ hres[h].ok =>
            LET eb == EncodeBlob(hblob[h])
                cert == CertOf(hdata[h])
            IN  \A i \in 0..(cert.data_length - 1) :
                    LET key == PayloadKey(BlobKey(cert.x, cert.y, i))
                    IN  /\ key \in DOMAIN store
                        /\ Len(store[key]) = 32
                        /\ \A k \in 1..32 :
                             store[key][k] = IF 32 * i + k <= Len(eb) THEN eb[32 * i + k] ELSE 0

C6_Witness ==
    \E h \in Tasks :
        /\ hpc[h] = "done" /\ hres[h].ok
        /\ 32 * (CertOf(hdata[h]).data_length - 1) >= Len(EncodeBlob(hblob[h]))

\* C7 as stated: a successful ingestion performs 2 * data_length + 2 writes.
C7_WritesTwoPerElementPlusTwo ==
    \A h \in Tasks :
        hpc[h] = "done" /\ hres[h].ok => hwrites[h] = 2 * CertOf(hdata[h]).data_length + 2

\* C7 amended: a successful ingestion performs data_length field-element payload
\* writes, data_length self-describing key writes, and a self-describing and a
\* payload write for each of the proof and the commitment: 2 * data_length + 4.
C7_WritesTwoPerElementPlusFour ==
    \A h \in Tasks :
        hpc[h] = "done" /\ hres[h].ok =>
            LET cert == CertOf(hdata[h])
                bufs == {BlobKey(cert.x, cert.y, i) : i \in 0..(cert.data_length - 1)}
                           \cup {KzgProofKey(cert.x, cert.y), KzgCommitmentKey(cert.x, cert.y)}
                keys == {PayloadKey(b) : b \in bufs} \cup {SelfKey(b) : b \in bufs}
            IN  /\ hwrites[h] = 2 * cert.data_length + 4
                /\ Cardinality(keys) = hwrites[h]
                /\ \A k \in keys : k \in DOMAIN store /\ writer[k] = hdata[h]

C7_Witness ==
    \E h \in Tasks :
        hpc[h] = "done" /\ hres[h].ok /\ CertOf(hdata[h]).data_length = 2 /\ hwrites[h] = 8

\* the transformed blob fetched by h is longer than data_length * 32
Oversize(h) ==
    /\ Fetched(h)
    /\ CertOf(hdata[h]).ok
    /\ Len(EncodeBlob(hblob[h])) > CertOf(hdata[h]).data_length * 32

\* C8: an oversize transformed blob aborts the handling at the assertion, before
\* any store entry is written.
C8_OversizeAbortsBeforeWrites ==
    \A h \in Tasks :
        Oversize(h) =>
            /\ hwrites[h] = 0
            /\ hpc[h] \in {"lock", "decode", "assert", "panicked"}
            /\ hpc[h] = "panicked" => hres[h].err = "EigenDA blob size exceeds expected size"

C8_Witness ==
    \E h \in Tasks : Oversize(h) /\ hpc[h] = "panicked" /\ store # <<>>

\* C9: blob_get that returns the length error has sent no hint.
C9_LengthCheckedBeforeHint ==
    \A c \in Tasks : cres[c].err = "does not contain header" => ~csent[c]

\* C10: no failure inside blob_get aborts the client task.
C10_BlobGetNeverPanics ==
    \A c \in Tasks : cpc[c] # "panicked"

\* ------------------------------------------------ derivation source: claims
\* the source holds a queue loaded for the arguments in sarg
Open == spc = "ready" /\ open

\* the last operation was a next() that returned the temporary error of a kind
NextFailed(kind) == sop = "next" /\ spc = "ready" /\ ~sres.ok /\ sres.kind = kind

\* the transactions of the block, told apart by what a batcher transaction carries
PassesFilter(tx, expected) ==
    /\ tx.ty \in KnownTxTypes
    /\ tx.to = BatcherInbox
    /\ RecoverSignerOrDefault(tx) = expected

CarriesFrame(tx) ==
    /\ Len(tx.input) > 1
    /\ tx.input[1] = DERIVATION_VERSION_EIGEN_DA
    /\ DecodeCalldataFrame(Tail(tx.input)).value = "frame"

CarriesRef(tx) ==
    /\ Len(tx.input) > 1
    /\ tx.input[1] = DERIVATION_VERSION_EIGEN_DA
    /\ DecodeCalldataFrame(Tail(tx.input)).value = "frame_ref"

RefOf(tx) == DecodeCalldataFrame(Tail(tx.input))

CarriesPlainBlobs(tx) == tx.ty = "Eip4844" /\ Len(tx.input) = 0

\* the frames one transaction contributes from its calldata
CalldataFrames(tx, expected) ==
    IF ~PassesFilter(tx, expected) THEN <<>>
    ELSE IF CarriesFrame(tx) THEN <<RefOf(tx).frame>>
    ELSE IF CarriesRef(tx) /\ Len(RefOf(tx).quorum_ids) > 0
    THEN RlpDecodeList(SubSeq(DaBlobGet(RefOf(tx).commitment).val, 1, RefOf(tx).blob_length)).val
    ELSE <<>>

\* the content of the plain blobs one transaction contributes
PlainContent(tx, expected) ==
    IF PassesFilter(tx, expected) /\ CarriesPlainBlobs(tx)
    THEN LET h == tx.blob_versioned_hashes
             RECURSIVE Cat(_)
             Cat(k) == IF k > Len(h) THEN <<>>
                       ELSE BlobDecode(BlobOf(h[k])).val \o Cat(k + 1)
         IN  Cat(1)
    ELSE <<>>

RECURSIVE ScanOrderFrames(_, _)
ScanOrderFrames(txs, expected) ==
    IF Len(txs) = 0 THEN <<>>
    ELSE CalldataFrames(Head(txs), expected) \o ScanOrderFrames(Tail(txs), expected)

RECURSIVE PlainBlobBytes(_, _)
PlainBlobBytes(txs, expected) ==
    IF Len(txs) = 0 THEN <<>>
    ELSE PlainContent(Head(txs), expected) \o PlainBlobBytes(Tail(txs), expected)

PlainBlobFrames(txs, expected) ==
    IF Len(PlainBlobBytes(txs, expected)) = 0 THEN <<>>
    ELSE RlpDecodeList(PlainBlobBytes(txs, expected)).val

\* C11: once a block is loaded, the frames delivered so far followed by the
\* queued ones are the frames of inline and referenced calldata in transaction
\* order, each reference expanded in place, followed by the frames of the
\* plain blobs.
C11_ScanOrderThenPlainBlobs ==
    Open =>
        delivered \o data =
            ScanOrderFrames(ChainTxs(sarg.ref), sarg.batcher_address)
                \o PlainBlobFrames(ChainTxs(sarg.ref), sarg.batcher_address)

C11_Witness ==
    /\ Open /\ sarg.ref = "mixed" /\ sarg.batcher_address = BatcherSigner
    /\ data = <<>>
    /\ delivered = <<Fr(1), Fr(3), Fr(4), Fr(2), Fr(6), WideFrame>>

\* the last next() ran out of frames
Eof == NextFailed("Eof")

\* C12: a next() on an open source with a non-empty queue returns the oldest
\* frame and removes exactly that one; on an open source with an empty queue
\* it fails with the temporary Eof error and leaves the source open and the
\* queue empty; only clear() closes the source.
C12_PopsOldestThenEof ==
    [][(Open /\ sop' = "next") =>
          /\ open' /\ spc' = "ready"
          /\ IF Len(data) > 0
             THEN sres' = FrameOk(Head(data)) /\ data' = Tail(data)
             ELSE sres' = TempErr("Eof", "") /\ data' = <<>>]_vars

C12_Witness ==
    /\ Open /\ Eof /\ sopen0
    /\ data = <<>>
    /\ Len(delivered) = 6

\* the calls of one kind among the provider calls of the last next()
CallsOf(kind) == SelectSeq(scalls, LAMBDA c : c.call = kind)

\* the last next() loaded its block
LoadedNow == sop = "next" /\ spc = "ready" /\ ~sopen0 /\ (sres.ok \/ sres.kind = "Eof")

\* C13: a next() on a closed source asks the chain provider for the block's
\* transactions exactly once, before any other provider, and leaves the source
\* open when the load succeeds; a next() on an open source calls no provider
\* and adds no frame; clear() leaves the source closed with an empty queue.
C13_LoadsOnlyWhenClosed ==
    /\ [](sop = "next" /\ ~sopen0 =>
             /\ Len(CallsOf("chain")) = 1 /\ scalls[1] = ChainCall(sarg.ref)
             /\ LoadedNow => open)
    /\ [](sop = "next" /\ sopen0 => scalls = <<>> /\ open)
    /\ [](sop = "clear" => ~open /\ data = <<>>)
    /\ [][(Open /\ sop' = "next") => Len(data') <= Len(data)]_vars

C13_Witness ==
    /\ Open /\ sop = "next" /\ sopen0 /\ sres.ok
    /\ firstDrain.reloaded

\* C14: the frames of a complete drain of a block are the frames of every
\* later drain of the same block with the same batcher address, whatever was
\* consumed before the clear() in between: while the block is loaded again,
\* the frames delivered followed by the queued ones are those of the first drain.
C14_ReloadSameFrames ==
    Open /\ firstDrain.arg = sarg => delivered \o data = firstDrain.frames

C14_Witness ==
    /\ Open /\ Eof /\ firstDrain.arg = sarg /\ firstDrain.reloaded
    /\ Len(delivered) = 6

\* the transactions of the block the last load was for
LoadedTxs == ChainTxs(sarg.ref)

\* C15: the DA provider is called only for references that carry quorum ids,
\* and a block whose only batcher transaction is a reference without quorum
\* ids loads with no frame: the next() that loads it makes no DA call, leaves
\* the source open with an empty queue and fails with Eof.
C15_EmptyQuorumsDropped ==
    /\ \A k \in DOMAIN scalls :
           scalls[k].call = "da" =>
               \E j \in DOMAIN LoadedTxs :
                   /\ CarriesRef(LoadedTxs[j])
                   /\ RefOf(LoadedTxs[j]).commitment = scalls[k].arg
                   /\ Len(RefOf(LoadedTxs[j]).quorum_ids) > 0
    /\ (sop = "next" /\ ~sopen0 /\ sarg.ref = "empty_quorum") =>
           Open /\ Eof /\ data = <<>> /\ Len(scalls) = 1

C15_Witness ==
    /\ sop = "next" /\ ~sopen0 /\ Open /\ Eof
    /\ sarg = [ref |-> "empty_quorum", batcher_address |-> BatcherSigner]
    /\ CarriesRef(LoadedTxs[1]) /\ PassesFilter(LoadedTxs[1], BatcherSigner)
    /\ RefOf(LoadedTxs[1]).quorum_ids = <<>>

\* the number of versioned hashes the first n transactions carry
RECURSIVE HashesBefore(_, _)
HashesBefore(txs, n) ==
    IF n = 0 THEN 0
    ELSE HashesBefore(txs, n - 1) + Len(txs[n].blob_versioned_hashes)

\* the hashes the last load asked the blob provider for
RecordedHashes ==
    IF Len(CallsOf("blobs")) = 0 THEN <<>> ELSE CallsOf("blobs")[1].arg

\* C16: every blob hash recorded by a scan has as index the number of blob
\* hashes carried by all transactions before its own, plus its position in
\* its own transaction.
C16_GlobalBlobIndex ==
    \A k \in DOMAIN RecordedHashes :
        \E j \in DOMAIN LoadedTxs :
            \E p \in DOMAIN LoadedTxs[j].blob_versioned_hashes :
                /\ LoadedTxs[j].blob_versioned_hashes[p] = RecordedHashes[k].hash
                /\ RecordedHashes[k].index = HashesBefore(LoadedTxs, j - 1) + (p - 1)

\* the block of the last load without the transactions the batcher filter rejects
KeptTxs == SelectSeq(LoadedTxs, LAMBDA tx : PassesFilter(tx, sarg.batcher_address))

\* the hashes of a list of indexed hashes
HashesOnly(indexed) == [k \in DOMAIN indexed |-> indexed[k].hash]

\* C17: transactions sent to another address than the configured one, or
\* signed by another signer than the expected one, add nothing to a load: its
\* DA calls, its recorded blob hashes and, when it succeeds, its frames are
\* those of the block without these transactions.
C17_FilteredTxsContributeNothing ==
    (sop = "next" /\ ~sopen0 /\ sarg.ref # "chain_error") =>
        LET kept == DataFromEigenDA(KeptTxs, sarg.batcher_address)
        IN  /\ CallsOf("da") = kept.calls
            /\ HashesOnly(RecordedHashes) \in {<<>>, HashesOnly(kept.hashes)}
            /\ Len(CallsOf("blobs")) = 1 => HashesOnly(RecordedHashes) = HashesOnly(kept.hashes)
            /\ Open => SubSeq(delivered \o data, 1, Len(kept.data)) = kept.data

C17_Witness ==
    /\ sop = "next" /\ ~sopen0 /\ Open
    /\ sarg = [ref |-> "mixed", batcher_address |-> BatcherSigner]
    /\ \E j \in DOMAIN LoadedTxs : LoadedTxs[j].to # BatcherInbox
    /\ \E j \in DOMAIN LoadedTxs :
           /\ LoadedTxs[j].to = BatcherInbox
           /\ RecoverSignerOrDefault(LoadedTxs[j]) # BatcherSigner
           /\ CarriesFrame(LoadedTxs[j])

\* the blobs the last load fetched
FetchedBlobs == GetBlobs(sarg.ref, RecordedHashes)

\* a decode failure the last load met: in its scan, or of a fetched blob that
\* the loop over the blobs reached, or of the list the blobs carry
ScanDecodeFailed ==
    LET scan == DataFromEigenDA(LoadedTxs, sarg.batcher_address)
    IN  scan.status = "err" /\ scan.err \in {"ProtoDecodeError", "RLPDecodeError"}

BlobDecodeFailed ==
    /\ Len(CallsOf("blobs")) = 1 /\ FetchedBlobs.ok
    /\ \E k \in DOMAIN RecordedHashes :
           /\ \A j \in 1..k : BlobFill(FetchedBlobs.val, j - 1).ok
           /\ ~BlobDecode(FetchedBlobs.val[k]).ok

ListDecodeFailed ==
    /\ Len(CallsOf("blobs")) = 1 /\ FetchedBlobs.ok
    /\ LET whole == WholeBlobData(FetchedBlobs.val, Len(RecordedHashes), 0, <<>>)
       IN  whole.ok /\ ~RlpDecodeList(whole.val).ok

\* C18: a load that meets a decode failure (calldata frame, list of a
\* resolved reference, fetched plain blob, list carried by the blobs) fails:
\* the next() that ran it returns an error.
C18_DecodeFailuresFatal ==
    (sop = "next" /\ ~sopen0 /\ spc = "ready"
        /\ (ScanDecodeFailed \/ BlobDecodeFailed \/ ListDecodeFailed)) =>
        NextFailed("Provider")

\* the last next() failed because blob_get failed
BlobGetFailed == NextFailed("Provider") /\ sres.cause = "Status"

\* C19: when blob_get fails during a load, next() returns an error, the source
\* stays closed with an empty queue and no frame of the block has been
\* delivered; the next() after it, for the same block, runs the load from the
\* start: it asks the chain provider again and repeats the same calls.
C19_BlobGetFailureLoadsNothing ==
    /\ [](BlobGetFailed => ~open /\ data = <<>> /\ delivered = <<>>)
    /\ [][(BlobGetFailed /\ sop' = "next") =>
             /\ scalls'[1] = ChainCall(sarg'.ref)
             /\ sarg' = sarg => scalls' = scalls /\ sres' = sres]_vars

C19_Witness ==
    /\ BlobGetFailed
    /\ sarg = [ref |-> "da_error", batcher_address |-> BatcherSigner]
    /\ CarriesFrame(LoadedTxs[1]) /\ CarriesRef(LoadedTxs[2])
    /\ scalls = <<ChainCall("da_error"), DaCall(CommitBad)>>

\* retrieve_blob_with_commitment has returned for a GET
ProxyDone == ppc = "idle" /\ preply # NoReply

\* C20: retrieve_blob_with_commitment returns the body for status 200,
\* NotFound for status 404, and NetworkError for every other status, for a
\* timeout and for a connection error.
C20_ProxyOutcomes ==
    ProxyDone =>
        IF preply.kind \in {"timeout", "conn_error"} THEN pres = Err("NetworkError")
        ELSE IF preply.status = 200 THEN pres = Ok(preply.body)
        ELSE IF preply.status = 404 THEN pres = Err("NotFound")
        ELSE pres = Err("NetworkError")

\* ------------------------------------------------ hint tags: claims
\* C21: formatting the value parsed from an accepted tag gives the tag back,
\* and parsing the formatted text of a HintWrapper value gives the value back.
C21_HintRoundTrip ==
    /\ hw.pc = "formatted" => hw.back = hw.text
    /\ hw.pc = "reparsed" => hw.again = hw.value

C21_Witness ==
    /\ hw.pc = "reparsed" /\ hw.value = Parsed(EigenDABlob)
    /\ hw.text = "l2-code" /\ hw.back = "eigen-da-blob"

\* ------------------------------------------------ the edges: lengths and proxy failures
\* commitments of every length around the two minimum lengths, and two
\* commitments with a certificate
EdgeCommitments ==
    {Fill(n, 1) : n \in HOST_MIN_LEN..(ClientMinLen + 1)}
    \cup {CommitmentFor(RawBlob(BYTES_PER_FIELD_ELEMENT - 1), 2),
          CommitmentFor(RawBlob(BYTES_PER_FIELD_ELEMENT + 1), MaxDataLength)}

\* one client task and its host task, the proxy answering in every way it can
NextEdge == Client(1, EdgeCommitments, MaxCalls) \/ Host(1, ProxyReplies)

SpecEdge == Init /\ [][NextEdge]_vars

\* ------------------------------------------------ repeated and failed hints: claims
\* the call repeats the commitment of the previous call, whose hint the host
\* handled successfully
Repeats(c) == cprev[c] # NoResult

\* C22: handling an EigenDABlob hint again for a commitment already handled
\* successfully, the proxy serving the same bytes, changes nothing in the
\* store: every write of the second handling finds its value already there.
C22_SecondHandlingKeepsStore ==
    [][\A h \in Tasks : Repeats(h) => store' = store]_vars

C22_Witness ==
    /\ Repeats(1) /\ hpc[1] = "done" /\ hres[1].ok
    /\ hwrites[1] > 3 /\ Len(wlog) = 2 * hwrites[1]

\* the GET of the current handling failed: no answer in time, no connection,
\* a status other than 200, or a body that cannot be read
FetchFailedBy(h, kind, status) == hgets[h] = << <<kind, status>> >> /\ ~GetBlob(Reply(kind, status, <<>>)).ok

\* C23: a handling issues at most one proxy GET; when that GET fails the hint
\* fails with "Failed to fetch blob" without a second GET, and a finished
\* handling is started again only by a new hint of the client.
C23_AtMostOneGet ==
    /\ [](\A h \in Tasks :
            /\ Len(hgets[h]) <= 1
            /\ (\E r \in ProxyReplies : FetchFailedBy(h, r.kind, r.status))
                 => hpc[h] \in {"done", "idle"} /\ hres[h] = Err("Failed to fetch blob"))
    /\ [][\A h \in Tasks :
            /\ hpc[h] \in {"done", "panicked"} => hpc'[h] \in {hpc[h], "idle"}
            /\ hpc'[h] = "ensure" => hpc[h] = "idle" /\ cpc[h] = "send" /\ hgets'[h] = <<>>]_vars

C23_Witness ==
    /\ FetchFailedBy(1, "timeout", 0) /\ hpc[1] = "idle" /\ cpc[1] = "read"
    /\ calls[1] = 2 /\ Len(hdata[1]) > ClientMinLen

\* C24: every blob_get call starts from nothing (no hint sent, no element
\* read, empty buffer), sends a hint carrying its commitment before anything
\* else, and reaches the decoding only after data_length reads; this holds
\* for a call repeating a commitment already reconstructed as for any other.
C24_EveryCallStartsAfresh ==
    \A c \in Tasks :
        /\ cpc[c] = "send" => ~csent[c] /\ ci[c] = 0 /\ cbuf[c] = <<>>
        /\ calls[c] > 0 /\ cpc[c] # "send" => csent[c] /\ hdata[c] = ccommit[c]
        /\ cpc[c] = "hint_sent" => hpc[c] # "idle"
        /\ cpc[c] = "decode" \/ (Finished(c) /\ cres[c].ok)
             => ci[c] = CertOf(ccommit[c]).data_length

C24_Witness ==
    /\ Repeats(1) /\ cprev[1].ok /\ Finished(1) /\ cres[1] = cprev[1]
    /\ csent[1] /\ ci[1] >= 2 /\ hwrites[1] > 3

\* the handling of h has failed with error e
HintFailed(h, e) == hpc[h] \in {"done", "idle"} /\ hres[h] = Err(e)

\* C25: every change of the store is a counted write of a handling, and a
\* handling that fails at the length check, at the fetch or at the
\* certificate decode has made no write; one that fails at the length check
\* has made no proxy request either.
C25_EarlyFailuresWriteNothing ==
    /\ [](\A h \in Tasks :
            /\ HintFailed(h, "Invalid hint data length") => hwrites[h] = 0 /\ hgets[h] = <<>>
            /\ HintFailed(h, "Failed to fetch blob") => hwrites[h] = 0 /\ Len(hgets[h]) = 1
            /\ HintFailed(h, "Failed to decode blob info")
                 => hwrites[h] = 0 /\ hgets[h] = << <<"status", 200>> >>)
    /\ [][store' # store =>
            \E h \in Tasks : hpc[h] \in Locked /\ hwrites'[h] = hwrites[h] + 1]_vars

C25_Witness ==
    /\ HintFailed(1, "Failed to decode blob info") /\ hpc[1] = "done"
    /\ calls[1] = 2 /\ Cardinality(DOMAIN store) > 3 /\ kvLock = 0

\* the hint of the current or of the last call of h has passed the length check
LengthChecked(h) == hpc[h] # "ensure" /\ (csent[h] \/ calls[h] > 1)

\* the call of c has passed the length check of blob_get, or has returned
ClientLengthChecked(c) == cpc[c] \in {"cert", "read", "decode", "panicked"} \/ Finished(c)

\* C26: the host fails a hint with the length error exactly when its data
\* has at most 32 bytes, blob_get returns the header error exactly when the
\* commitment has at most 35 bytes; for 33 to 35 bytes the host has asked
\* the proxy while blob_get returns the header error.
C26_LengthThresholds ==
    \A t \in Tasks :
        /\ LengthChecked(t)
             => (hres[t] = Err("Invalid hint data length") <=> Len(hdata[t]) <= 32)
        /\ ClientLengthChecked(t)
             => (cres[t] = Err("does not contain header") <=> Len(ccommit[t]) <= 35)
        /\ Finished(t) /\ Len(ccommit[t]) \in 33..35
             => Len(hgets[t]) = 1 /\ cres[t] = Err("does not contain header")

C26_Witness ==
    /\ Finished(1) /\ Len(ccommit[1]) = 34 /\ cres[1] = Err("does not contain header")
    /\ hgets[1] = << <<"status", 200>> >> /\ hres[1] = Err("Failed to decode blob info")

\* ------------------------------------------------ the reads of blob_get: claims
\* the commitment of the call of c carries a certificate blob_get decodes
Decodable(c) == Len(ccommit[c]) > ClientMinLen /\ CertOf(ccommit[c]).ok

\* digest of x, y, 24 zero bytes and the 8-byte big-endian index, in the
\* generic payload namespace
ElementKey(cert, i) == PayloadKey(cert.x \o cert.y \o Zeros(24) \o ToBeBytes(8, i))

\* the reads the call of c has issued: the successful ones and the failed one
ReadsIssued(c) ==
    ci[c] + (IF cres[c] \in {Err("key not found"), Err("buffer length mismatch")}
             THEN 1 ELSE 0)

\* C27 as stated: every finished call for a commitment with a decodable
\* certificate of data_length L has issued exactly L reads.
C27_ExactlyLReads ==
    \A c \in Tasks :
        Finished(c) /\ Decodable(c) => ReadsIssued(c) = CertOf(ccommit[c]).data_length

\* C27: blob_get reads in ascending index order from 0, read i under the key
\* the host writes field element i under; it never reads under another key,
\* never issues more than L reads, issues all L before it decodes, and
\* issues all L whenever the host has ingested the commitment; a read that
\* fails ends the call before the remaining reads.
C27_ReadsFollowHostKeys ==
    /\ [](\A c \in Tasks :
            LET L == CertOf(ccommit[c]).data_length
            IN  /\ cpc[c] \in {"read", "decode"} => ci[c] <= L
                /\ cpc[c] = "decode" \/ (Finished(c) /\ Decodable(c) /\ cres[c].ok)
                     => ReadsIssued(c) = L
                /\ Finished(c) /\ Decodable(c) /\ hres[c].ok => ReadsIssued(c) = L
                /\ Finished(c) /\ Decodable(c) /\ ReadsIssued(c) > ci[c]
                     => ci[c] < L /\ ElementKey(CertOf(ccommit[c]), ci[c]) \notin DOMAIN store
                /\ lastRead[c] # NoKey
                     => /\ ci[c] > 0
                        /\ lastRead[c] = ElementKey(CertOf(ccommit[c]), ci[c] - 1)
                        /\ lastRead[c] \in DOMAIN store)
    /\ [][\A t \in Tasks :
            /\ ci'[t] # ci[t] =>
                 \/ ci'[t] = 0 /\ cpc[t] = "idle"
                 \/ /\ ci'[t] = ci[t] + 1 /\ cpc[t] = "read"
                    /\ lastRead'[t] = ElementKey(CertOf(ccommit[t]), ci[t])
            /\ hpc[t] = "fe_data" /\ hpc'[t] = "fe_key" =>
                 /\ ElementKey(CertOf(hdata[t]), hi[t]) \in DOMAIN store'
                 /\ store'[ElementKey(CertOf(hdata[t]), hi[t])]
                      = FieldElement(EncodeBlob(hblob[t]), hi[t])]_vars

C27_Witness ==
    /\ Finished(1) /\ Decodable(1) /\ cres[1].ok /\ ci[1] = MaxDataLength
    /\ lastRead[1] = ElementKey(CertOf(ccommit[1]), MaxDataLength - 1)

\* ------------------------------------------------ the lookup buffers: claims
\* every write the store has seen is a write of the current handling of h
OnlyWriter(h) == Len(wlog) = hwrites[h]

\* the lookup buffers of the handling of h
LookupBuffers(h) ==
    LET cert == CertOf(hdata[h])
    IN  {BlobKey(cert.x, cert.y, i) : i \in 0..(cert.data_length - 1)}
        \cup {KzgProofKey(cert.x, cert.y), KzgCommitmentKey(cert.x, cert.y)}

\* C28: the L field-element lookup buffers (96 bytes), the proof lookup
\* buffer (64 bytes) and the commitment lookup buffer (65 bytes) of one
\* ingestion are pairwise distinct; every write of an ingestion makes a new
\* entry, 2L + 4 in all, and each self-describing entry holds a lookup
\* buffer under the digest of that buffer.
C28_LookupBuffersDistinct ==
    \A h \in Tasks :
        /\ hpc[h] \in (Locked \ {"decode"}) \/ Ingested(h) =>
             LET cert == CertOf(hdata[h])
             IN  /\ Cardinality(LookupBuffers(h)) = cert.data_length + 2
                 /\ \A i \in 0..(cert.data_length - 1) :
                      Len(BlobKey(cert.x, cert.y, i)) = 96
                 /\ Len(KzgProofKey(cert.x, cert.y)) = 64
                 /\ Len(KzgCommitmentKey(cert.x, cert.y)) = 65
        /\ OnlyWriter(h) => Cardinality(DOMAIN store) = hwrites[h]
        /\ OnlyWriter(h) /\ Ingested(h)
             => /\ hwrites[h] = 2 * CertOf(hdata[h]).data_length + 4
                /\ \A b \in LookupBuffers(h) :
                     SelfKey(b) \in DOMAIN store /\ PayloadKey(b) \in DOMAIN store
        /\ \A k \in DOMAIN store :
             k.ty = "Keccak256" => k.hash = Keccak256(store[k]) /\ Len(store[k]) \in {96, 64, 65}

C28_Witness ==
    /\ Ingested(1) /\ OnlyWriter(1) /\ hwrites[1] = 2 * MaxDataLength + 4
    /\ Cardinality(DOMAIN store) = 2 * MaxDataLength + 4

\* ------------------------------------------------ the store lock: claims
\* the handling of h has left fetch_hint with error e
ExitedWith(h, e) == hpc[h] \in {"done", "idle"} /\ hres[h] = Err(e)

\* the handling of h waits for or holds the write lock, or the client of h
\* is reading from the store
AtStore(h) == hpc[h] \in ({"lock"} \cup Locked) \/ cpc[h] = "read"

\* C29: the write lock of the store is held exactly by a handling between
\* its fetch and its exit, so it is free after every exit (success,
\* certificate decode failure, witness failure, commitment mismatch, store
\* write error); a handling that waits for the lock gets it and gives it up
\* again, and a client that reads from the store gets through.
C29_LockReleasedOnEveryExit ==
    /\ [](\A h \in Tasks :
            /\ kvLock = h => hpc[h] \in Locked /\ Len(hgets[h]) = 1
            /\ hpc[h] \in Locked => kvLock = h)
    /\ \A h \in Tasks : AtStore(h) ~> ~AtStore(h)

C29_Witness ==
    /\ ExitedWith(1, "store set error") /\ hwrites[1] > 0 /\ kvLock = 2
    /\ hpc[2] = "fe_data" /\ cpc[1] = "read"

\* ------------------------------------------------ the declared length of a reference: claims
\* tx carries a reference that is resolved and declares more bytes than the
\* DA provider returns for its commitment
DeclaresTooMuch(tx) ==
    /\ CarriesRef(tx) /\ ~QuorumsMissing(RefOf(tx))
    /\ DaBlobGet(RefOf(tx).commitment).ok
    /\ RefOf(tx).blob_length > Len(DaBlobGet(RefOf(tx).commitment).val)

\* the last next() has resolved such a reference
ResolvedTooShort ==
    /\ sop = "next"
    /\ \E k \in DOMAIN ChainTxs(sarg.ref) :
         LET tx == ChainTxs(sarg.ref)[k]
         IN  /\ PassesFilter(tx, sarg.batcher_address) /\ DeclaresTooMuch(tx)
             /\ \E j \in DOMAIN scalls : scalls[j] = DaCall(RefOf(tx).commitment)

\* C30: when a reference declares more bytes than the DA provider returned,
\* next() returns a typed error of the load; no next() aborts its task.
C30_ShortBlobIsTypedError ==
    /\ spc = "ready"
    /\ ResolvedTooShort => NextFailed("Provider")

====
